---- MODULE Spec2Model ----
(***************************************************************************)
(* Model of the myos cooperative kernel: the scheduler and event dispatch  *)
(* of src/myos-zephyr-module/src/process.c, with the protothread resume    *)
(* point of pt.h, the circular singly linked running list of slist.h and   *)
(* slist.c and the event ring buffer of ringbuffer.h.                      *)
(*                                                                         *)
(* The scheduler thread is a stack machine: `stack` holds one frame per    *)
(* task body that has been entered by process_deliver_event and has not    *)
(* returned yet, `runpc` is the position inside process_run and `tpost` is *)
(* the position inside a task level process_post.  Interrupt handlers      *)
(* (SpecIsrPost, SpecIsrPoll) run to completion between any two steps of   *)
(* the thread.                                                             *)
(*                                                                         *)
(* The ptimer subsystem of ptimer.c and ptimer.h is modelled over the      *)
(* wrapping timestamps of timestamp.h: `ptnext` is the running list of     *)
(* ptimers, `ptpc` the position inside the expiry sweep of ptimer_process  *)
(* and `curr`, `nxt` its two list cursors (SpecPtimer, SpecPtimer2).       *)
(*                                                                         *)
(* Further subsystems have specifications of their own: the etimers of     *)
(* etimer.c inside process_run (SpecEtimer), the rtimer of rtimer.c with   *)
(* the lock of mutex.c and the comparator interrupt (SpecRtimer), the      *)
(* waiting and spawning macros of pt.h (SpecPt), a wall-clock timer of     *)
(* timer.h (SpecWall) and the division and the tangent of fxp16.c          *)
(* (SpecFxp).                                                              *)
(***************************************************************************)
EXTENDS Integers, Sequences, FiniteSets, TLC

\* ---------------------------------------------------------------- bounds
MaxDepth == 2      \* nesting depth of task bodies on the thread's stack
MaxOps   == 1      \* kernel calls one body invocation makes before it returns
MaxPosts == 3      \* process_post calls that are given a ticket
MaxPolls == 2      \* poll requests counted per task between two dispatches
MaxTime  == 2      \* ticks of the wall-clock counter
MaxSpan  == 2      \* longest span a ptimer is started with
MaxHOps  == 1      \* ptimer calls one handler invocation makes
TIMESTAMP_BITS == 4   \* width of timestamp_t in the model (uint32_t in the code)
MaxRTime == 3      \* ticks of the rtimer counter
MaxRSpan == 2      \* longest span an rtimer is started with
MaxCalls == 3      \* invocations of one protothread that are counted
MaxSqrtArg == 255  \* fxp16_sqrt is called with every value from 0 up to this

\* ------------------------------------------------------ program constants
RINGBUFFER_SIZE        == 2       \* CONFIG_MYOS_PROC_EVENT_QUEUE_SIZE
LC_DEFAULT             == 65535   \* (lc_t)~0, lc_t is uint16_t
LC_LINE                == 95      \* a __LINE__ stored by LC_SET
PROCESS_EVENT_START    == 0
PROCESS_EVENT_POLL     == 1
PROCESS_EVENT_CONTINUE == 2
PROCESS_EVENT_TIMEOUT  == 3
PROCESS_EVENT_EXIT     == 4
PT_STATE_WAITING       == 1
PT_STATE_TERMINATED    == 255

NULL  == "NULL"
Procs == {"A", "B"}
process_running_list == "LIST"            \* the list head is itself a node
Nodes == Procs \cup {process_running_list}

Ptimers == {"P1", "P2", "P3"}
Ptimers2 == {"P1", "P2"}                  \* the ptimers of SpecPtimer2
ptimer_running_list == "PTLIST"           \* the list head is itself a node
PtNodes == Ptimers \cup {ptimer_running_list}

\* event ids the application delivers with process_post_sync
UserIds == {PROCESS_EVENT_CONTINUE, PROCESS_EVENT_EXIT}
\* event ids the application queues with process_post
PostIds == {PROCESS_EVENT_CONTINUE}

VARIABLES
  lc,                      \* process_t.pt.lc
  pollreq,                 \* process_t.pollreq
  next,                    \* slist_node_t.next of every node
  process_current,
  process_global_pollreq,
  items, head, tail, count,   \* process_event_queue
  stack,                   \* task bodies entered and not yet returned
  runpc, runit,            \* position and list iterator of process_run
  tpost,                   \* task level process_post in progress
  reg,                     \* register of a load/store pair of the thread
  fault,                   \* "none", or why the thread can make no progress
  nposted, posted,         \* history: tickets and records of successful posts
  postret,                 \* history: what the caller's last process_post returned
  dlog,                    \* history: records dequeued by process_run
  deq,                     \* history: dequeues of the current process_run
  nreq,                    \* history: poll requests since the last dispatch
  pend,                    \* history: age of an undelivered poll request
  now,                     \* timestamp_now(), the wall-clock counter
  timer,                   \* ptimer_t.timer: start and span
  running,                 \* ptimer_t.running
  handler,                 \* ptimer_t.handler is not NULL
  ptnext,                  \* slist_node_t.next of the ptimer list nodes
  ptimer_pending, ptimer_next_stop,
  ptpc, curr, nxt,         \* position and iterators of ptimer_process
  hops,                    \* ptimer calls left to the handler in progress
  ptfault,                 \* "none", or why the sweep can make no progress
  elapsed,                 \* history: ticks since the start
  insord,                  \* history: the linked ptimers in insertion order
  due,                     \* history: ptimers expired at the last
                           \* ptimer_processing call and still to fire
  hstarted,                \* history: ptimers a handler of the sweep in
                           \* progress has passed to ptimer_add_to_list
  hposted,                 \* history: tickets of the events the ptimer
                           \* handlers posted during this process_run
  owed,                    \* history: sleeping tasks whose etimer had
                           \* expired when this process_run served the ptimers
  rnow,                    \* rtimer_now(), the counter of the rtimer
  rt,                      \* rtimer_t: start, span, callback
  rtimer_next, rtimer_mutex,
  alarm,                   \* the comparator: armed or not, its stop time
  rpc, rloc,               \* position of the interrupt of the comparator and
                           \* the local rtimer of rtimer_scheduler
  lk,                      \* task level mutex_lock in progress
  irqoff,                  \* interrupts are disabled
  rfault,                  \* "none", or why the interrupt cannot go on
  rticks,                  \* history: ticks of the rtimer counter
  owners,                  \* history: rtimer_lock successes at task and at
                           \* interrupt level since the last release
  cblock,                  \* history: what rtimer_lock returned to the
                           \* callback
  fires, ran,              \* history: comparator matches and callback runs
                           \* since the rtimer was started
  rt0,                     \* history: the counter when it was started
  acq,                     \* the task is between PROCESS_RTIMER_ACQUIRE and
                           \* rtimer_start (main.c:50-51)
  wlc,                     \* pt_t.lc of the protothread that waits for a
                           \* condition
  event_cond,              \* the condition it waits for
  wret, wlast, wcalls,     \* history: what its last invocation returned,
                           \* where it entered and what the condition was,
                           \* and its invocations
  plc, clc,                \* pt_t.lc of the parent and of the child it spawns
  data_ready,              \* the condition the child waits for
  pret, cret,              \* history: what the last invocation of the parent
                           \* and of the child returned
  ppassed,                 \* history: the parent went on past PT_SPAWN
  pcalls, ccalls,          \* history: invocations of the parent and of the
                           \* child
  wtimer,                  \* a timer_t of the application: start and span
  tmset,                   \* it has been started
  since,                   \* history: ticks since it was started
  fxarg,                   \* the arguments of a call of the fxp16 library
  fxcall,                  \* "none", or the function that was called
  fxres,                   \* what it returned
  errno,
  fxfault                  \* "none", or why the call did not return

procvars == <<lc, pollreq, next, process_current, process_global_pollreq,
              items, head, tail, count, stack, runpc, runit, tpost, reg,
              fault, nposted, posted, postret, dlog, deq, nreq, pend>>

ptvars == <<now, timer, running, handler, ptnext, ptimer_pending,
            ptimer_next_stop, ptpc, curr, nxt, hops, ptfault, elapsed,
            insord, due, hstarted>>

etvars == <<hposted, owed>>

rtvars == <<rnow, rt, rtimer_next, rtimer_mutex, alarm, rpc, rloc, lk, irqoff,
            rfault, rticks, owners, cblock, fires, ran, rt0, acq>>

mvars == <<wlc, event_cond, wret, wlast, wcalls, plc, clc, data_ready, pret,
           cret, ppassed, pcalls, ccalls>>

wvars == <<wtimer, tmset, since>>

fxvars == <<fxarg, fxcall, fxres, errno, fxfault>>

libvars == <<mvars, wvars, fxvars>>

auxvars == <<etvars, rtvars, libvars>>

vars == <<procvars, ptvars, auxvars>>

kernel == <<lc, pollreq, next, process_current, process_global_pollreq>>
queue  == <<items, head, tail, count>>
hist   == <<nposted, posted, postret, dlog, deq, nreq, pend>>

NoEvent == [id |-> 0, data |-> 0, from |-> NULL, to |-> NULL]
NoPost  == [pc |-> "none"]

\* ------------------------------------------------------------------ pt.h
PT_IS_RUNNING(l) == l > 0 /\ l # LC_DEFAULT
PROCESS_IS_RUNNING(p) == PT_IS_RUNNING(lc[p])
PT_INIT == 0

\* --------------------------------------------------------------- slist.h
\* slist_prev: iterator = node; while(iterator->next != node) iterator = next
RECURSIVE slist_prev_walk(_, _, _, _)
slist_prev_walk(nx, it, node, fuel) ==
  IF it = NULL THEN "NULLDEREF"
  ELSE IF nx[it] = node THEN it
  ELSE IF fuel = 0 THEN "HANG"
  ELSE slist_prev_walk(nx, nx[it], node, fuel - 1)

slist_prev(nx, node) == slist_prev_walk(nx, node, node, Cardinality(Nodes) + 1)

\* mutant: the node is linked behind the first node
slist_push_front_second(nx, node) ==
  [nx EXCEPT ![node] = nx[nx[process_running_list]],
             ![nx[process_running_list]] = node]
\* slist.h:318-322: node->next = list->next; list->next = node
slist_push_front(nx, node) ==
  [nx EXCEPT ![node] = nx[process_running_list],
             ![process_running_list] = node]

slist_erase(nx, node) == [nx EXCEPT ![slist_prev(nx, node)] = nx[node]]

\* the nodes slist_foreach visits, for as long as it does not leave the list
RECURSIVE slist_reach(_, _, _)
slist_reach(nx, it, fuel) ==
  IF it = NULL \/ it = process_running_list \/ fuel = 0 THEN {}
  ELSE {it} \cup slist_reach(nx, nx[it], fuel - 1)

Linked(p) == p \in slist_reach(next, next[process_running_list],
                               Cardinality(Nodes) + 1)

\* the nodes slist_foreach visits from it on, in the order of the visits
RECURSIVE slist_seq(_, _, _)
slist_seq(nx, it, fuel) ==
  IF it = NULL \/ it = process_running_list \/ fuel = 0 THEN <<>>
  ELSE <<it>> \o slist_seq(nx, nx[it], fuel - 1)

Listed == slist_seq(next, next[process_running_list], Cardinality(Nodes) + 1)

\* ---------------------------------------------------------- ringbuffer.h
\* mutant: the full test is off by one
RINGBUFFER_FULL_gt == count > RINGBUFFER_SIZE
RINGBUFFER_FULL == count >= RINGBUFFER_SIZE

\* mutant: the index wraps one slot early
RINGBUFFER_ADVANCE_early(i) == IF i + 2 >= RINGBUFFER_SIZE THEN 0 ELSE i + 1
\* ++index; if(index == RINGBUFFER_SIZE) index = 0
RINGBUFFER_ADVANCE(i) == IF i + 1 = RINGBUFFER_SIZE THEN 0 ELSE i + 1

\* ----------------------------------------------- timestamp.h, timer.h
TsMod == 2 ^ TIMESTAMP_BITS
\* timestamp_t arithmetic wraps at the width of the type
TsAdd(a, b) == (a + b) % TsMod
\* TIMESTAMP_ARCH_DIFF: the difference a - b read as a signed number
TIMESTAMP_DIFF(a, b) ==
  LET d == (a - b + TsMod) % TsMod
  IN IF d >= TsMod \div 2 THEN d - TsMod ELSE d
\* mutant: the order is reversed
timestamp_less_than_rev(a, b) == TIMESTAMP_DIFF(a, b) > 0
timestamp_less_than(a, b) == TIMESTAMP_DIFF(a, b) < 0
\* mutant: the timestamps are compared as unsigned numbers
timestamp_lessequal_than_unsigned(a, b) == a <= b
timestamp_lessequal_than(a, b) == TIMESTAMP_DIFF(a, b) <= 0
timestamp_passed(ts) == timestamp_lessequal_than(ts, now)
timer_timestamp_stop(tm) == TsAdd(tm.start, tm.span)
timer_expired(tm) == timestamp_passed(timer_timestamp_stop(tm))
ptimer_expired(t) == timer_expired(timer[t])

\* timer.h:113-140 (timer.c is not part of the sources): start = now with
\* the new span; start = now with the old span; start = start + span
timer_start(tm, span) == [start |-> now, span |-> span]
timer_restart(tm) == [tm EXCEPT !.start = now]
timer_reset(tm) == [tm EXCEPT !.start = TsAdd(tm.start, tm.span)]

\* the ptimer subsystem after ptimer_module_init: ptimer_process has run
\* ptlist_init and waits for POLL; the ptimer records are zeroed statics;
\* the counter is two ticks before its wrap
PtInit ==
  /\ now = TsMod - 2
  /\ timer = [t \in Ptimers |-> [start |-> 0, span |-> 0]]
  /\ running = [t \in Ptimers |-> FALSE]
  /\ handler = [t \in Ptimers |-> FALSE]
  /\ ptnext = [n \in PtNodes |-> IF n = ptimer_running_list
                                 THEN ptimer_running_list ELSE NULL]
  /\ ptimer_pending = FALSE /\ ptimer_next_stop = 0
  /\ ptpc = "idle" /\ curr = NULL /\ nxt = NULL
  /\ hops = 0
  /\ ptfault = "none"
  /\ elapsed = 0
  /\ insord = <<>>
  /\ due = {}
  /\ hstarted = {}

\* no handler has posted and no sleeper is owed a wake-up
EtInit == hposted = {} /\ owed = {}

Rtimers == {"R1"}
\* what the callback of an rtimer does: nothing; rtimer_reset of its rtimer;
\* rtimer_reset and rtimer_lock (main.c:23-35); rtimer_lock and
\* rtimer_start of its rtimer
Callbacks == {"plain", "reset", "reset_lock", "lock_start"}
NoLock == [pc |-> "none", was |-> FALSE, status |-> FALSE]
NoAlarm == [armed |-> FALSE, stop |-> 0]
Armed(ts) == [armed |-> TRUE, stop |-> ts]

\* rtimer.c:39-40 and the zeroed static rtimer_t of main.c:42
RtInit ==
  /\ rnow = TsMod - 2
  /\ rt = [r \in Rtimers |-> [start |-> 0, span |-> 0, callback |-> NULL]]
  /\ rtimer_next = NULL /\ rtimer_mutex = FALSE
  /\ alarm = NoAlarm
  /\ rpc = "none" /\ rloc = NULL
  /\ lk = NoLock
  /\ irqoff = FALSE
  /\ rfault = "none"
  /\ rticks = 0
  /\ owners = [task |-> 0, isr |-> 0]
  /\ cblock = FALSE
  /\ fires = 0 /\ ran = 0 /\ rt0 = 0
  /\ acq = FALSE

\* pt.h:293: the protothreads after PT_INIT; no condition holds yet
MInit ==
  /\ wlc = 0 /\ event_cond = FALSE
  /\ wret = 0 /\ wlast = [resumed |-> FALSE, cond |-> FALSE] /\ wcalls = 0
  /\ plc = 0 /\ clc = 0 /\ data_ready = FALSE
  /\ pret = 0 /\ cret = 0 /\ ppassed = FALSE
  /\ pcalls = 0 /\ ccalls = 0

\* a zeroed static timer_t (timer.h:93-96) that was never started
WInit == wtimer = [start |-> 0, span |-> 0] /\ tmset = FALSE /\ since = 0

INT16_MAX == 32767
INT16_MIN == -32768
\* the values, the divisors and the numbers of fractional bits the fxp16
\* library is called with
FxValues   == {INT16_MIN, -16384, -8192, -1, 0, 1, 8192, 16384, INT16_MAX}
FxDivisors == {INT16_MIN, -3, 0, 1, 256}
FxFracs    == {0, 8, 15}
FxArgs     == [a : FxValues, na : FxFracs, b : FxDivisors, nb : FxFracs]

\* the values, none of them negative, and the numbers of fractional bits
\* fxp16_sqrt is called with
SqrtValues == (0..MaxSqrtArg) \cup {8192, 16383, 16384, 32766, INT16_MAX}
SqrtArgs   == [a : SqrtValues, na : 0..16, b : {0}, nb : {0}]

\* no function of the library has been called; errno is 0 at program start
FxIdle == fxcall = "none" /\ fxres = 0 /\ errno = 0 /\ fxfault = "none"
FxInit == fxarg = [a |-> 0, na |-> 0, b |-> 0, nb |-> 0] /\ FxIdle

LibInit == MInit /\ WInit /\ FxInit

AuxInit == EtInit /\ RtInit /\ LibInit

\* the kernel after process_init (process.c:111-130)
ProcInit ==
  /\ lc = [p \in Procs |-> 0]
  /\ pollreq = [p \in Procs |-> FALSE]
  /\ next = [n \in Nodes |-> IF n = process_running_list
                             THEN process_running_list ELSE NULL]
  /\ process_current = NULL
  /\ process_global_pollreq = FALSE
  /\ items = [i \in 0..(RINGBUFFER_SIZE - 1) |-> NoEvent]
  /\ head = 0 /\ tail = 0 /\ count = 0
  /\ stack = <<>>
  /\ runpc = "idle" /\ runit = NULL
  /\ tpost = NoPost
  /\ reg = 0
  /\ fault = "none"
  /\ nposted = 0 /\ posted = <<>> /\ postret = "none"
  /\ dlog = <<>>
  /\ deq = 0
  /\ nreq = [p \in Procs |-> 0]
  /\ pend = [p \in Procs |-> 0]

Init == ProcInit /\ PtInit /\ AuxInit

\* the program before one call of the fxp16 library with any of the
\* arguments
InitFxp ==
  /\ ProcInit /\ PtInit /\ EtInit /\ RtInit /\ MInit /\ WInit
  /\ fxarg \in FxArgs
  /\ FxIdle

\* the program before one call of fxp16_sqrt with any of its arguments
InitSqrt ==
  /\ ProcInit /\ PtInit /\ EtInit /\ RtInit /\ MInit /\ WInit
  /\ fxarg \in SqrtArgs
  /\ FxIdle

\* ------------------------------------------------- position of the thread
Top    == stack[Len(stack)]
InPost == tpost.pc # "none"
Idle   == fault = "none" /\ ~InPost /\ stack = <<>> /\ runpc = "idle"
InRun  == fault = "none" /\ ~InPost /\ stack = <<>> /\ runpc # "idle"
InBody == fault = "none" /\ ~InPost /\ stack # <<>>

\* who may issue a kernel call: the main loop between two calls, or the body
\* on top of the stack, which has MaxOps calls per invocation
CanCall == Idle \/ (InBody /\ ~Top.term /\ Top.ops > 0)
Charged == IF stack = <<>> THEN stack
           ELSE [stack EXCEPT ![Len(stack)].ops = @ - 1]

PopPcs == {"head_ld", "head_st", "cnt_ld", "cnt_st"}
\* events posted with success and not yet popped
Held == nposted - Len(dlog) + (IF runpc \in PopPcs THEN 1 ELSE 0)

Bump(n) == IF n < MaxPolls THEN n + 1 ELSE n

\* ------------------------------------------------ process_deliver_event
\* the guard of process.c:210 (mutant: every event is delivered)
Deliverable_always(to, id) == TRUE
Deliverable(to, id) == PROCESS_IS_RUNNING(to) \/ id = PROCESS_EVENT_START

\* PROCESS_CONTEXT_BEGIN and the call of the body: the body's frame; a body
\* entered with EXIT leaves at PROCESS_BEGIN (term; mutant: it does not)
Frame_noexit(to, id, src) ==
  [p |-> to, id |-> id, backup |-> process_current, ops |-> MaxOps,
   term |-> FALSE, src |-> src, k |-> 0]
Frame(to, id, src) ==
  [p |-> to, id |-> id, backup |-> process_current, ops |-> MaxOps,
   term |-> (id = PROCESS_EVENT_EXIT), src |-> src, k |-> 0]

\* ------------------------------------------------------- process_start
process_start(p) ==
  /\ CanCall
  /\ IF PROCESS_IS_RUNNING(p)
     THEN /\ stack' = Charged
          /\ UNCHANGED <<lc, next, process_current, pend>>
     ELSE /\ Len(stack) < MaxDepth
          /\ lc' = [lc EXCEPT ![p] = PT_INIT]
          /\ next' = slist_push_front(next, p)
          /\ stack' = Append(Charged, Frame(p, PROCESS_EVENT_START, "start"))
          /\ process_current' = p
          /\ pend' = [pend EXCEPT ![p] = 0]
  /\ UNCHANGED <<pollreq, process_global_pollreq, queue, runpc, runit, tpost,
                 reg, fault, nposted, posted, postret, dlog, deq, nreq>>
  /\ UNCHANGED ptvars
  /\ UNCHANGED auxvars

\* -------------------------------------------------------- process_exit
process_exit(p) ==
  /\ CanCall
  /\ IF ~PROCESS_IS_RUNNING(p)
     THEN /\ stack' = Charged
          /\ UNCHANGED process_current
     ELSE /\ Len(stack) < MaxDepth
          /\ stack' = Append(Charged, Frame(p, PROCESS_EVENT_EXIT, "exit"))
          /\ process_current' = p
  /\ UNCHANGED <<lc, pollreq, next, process_global_pollreq, queue, runpc,
                 runit, tpost, reg, fault, hist>>
  /\ UNCHANGED ptvars
  /\ UNCHANGED auxvars

\* --------------------------------------------------- process_post_sync
process_post_sync(p, id) ==
  /\ CanCall
  /\ IF ~Deliverable(p, id)
     THEN /\ stack' = Charged
          /\ UNCHANGED process_current
     ELSE /\ Len(stack) < MaxDepth
          /\ stack' = Append(Charged, Frame(p, id, "sync"))
          /\ process_current' = p
  /\ UNCHANGED <<lc, pollreq, next, process_global_pollreq, queue, runpc,
                 runit, tpost, reg, fault, hist>>
  /\ UNCHANGED ptvars
  /\ UNCHANGED auxvars

\* -------------------------------------------------------- process_poll
\* the two stores of process.c:308-309 and the history of the request
PollEffect(p) ==
  /\ pollreq' = [pollreq EXCEPT ![p] = TRUE]
  /\ process_global_pollreq' = TRUE
  /\ nreq' = [nreq EXCEPT ![p] = Bump(@)]

process_poll(p) ==
  /\ CanCall
  /\ PollEffect(p)
  /\ stack' = Charged
  /\ UNCHANGED <<lc, next, process_current, queue, runpc, runit, tpost, reg,
                 fault, nposted, posted, postret, dlog, deq, pend>>
  /\ UNCHANGED ptvars
  /\ UNCHANGED auxvars

\* -------------------------------------------------------- process_post
\* the record process_post writes: from is PROCESS_THIS() at the call
Event(to, id, data) == [id |-> id, data |-> data, from |-> process_current,
                        to |-> to]

\* process.c:138-144: the call and the RINGBUFFER_FULL check
process_post(to, id) ==
  /\ CanCall
  /\ RINGBUFFER_FULL \/ nposted < MaxPosts
  /\ stack' = Charged
  /\ IF RINGBUFFER_FULL
     THEN /\ postret' = "full"
          /\ UNCHANGED <<tpost, nposted, posted>>
     ELSE /\ postret' = "none"
          /\ nposted' = nposted + 1
          /\ posted' = Append(posted, Event(to, id, nposted + 1))
          /\ tpost' = [pc |-> "fill", evt |-> Event(to, id, nposted + 1)]
  /\ UNCHANGED <<kernel, queue, runpc, runit, reg, fault, dlog, deq,
                 nreq, pend>>
  /\ UNCHANGED ptvars
  /\ UNCHANGED auxvars

\* process.c:147-153: evt = RINGBUFFER_TAIL_PTR; the four stores
PostFill ==
  /\ fault = "none" /\ tpost.pc = "fill"
  /\ items' = [items EXCEPT ![tail] = tpost.evt]
  /\ tpost' = [tpost EXCEPT !.pc = "tail_ld"]
  /\ UNCHANGED <<kernel, head, tail, count, stack, runpc, runit, reg, fault,
                 hist>>
  /\ UNCHANGED ptvars
  /\ UNCHANGED auxvars

\* RINGBUFFER_PUSH, ++tail with the wrap: the load
PostTailLoad ==
  /\ fault = "none" /\ tpost.pc = "tail_ld"
  /\ reg' = tail
  /\ tpost' = [tpost EXCEPT !.pc = "tail_st"]
  /\ UNCHANGED <<kernel, queue, stack, runpc, runit, fault, hist>>
  /\ UNCHANGED ptvars
  /\ UNCHANGED auxvars

\* RINGBUFFER_PUSH, ++tail with the wrap: the store
PostTailStore ==
  /\ fault = "none" /\ tpost.pc = "tail_st"
  /\ tail' = RINGBUFFER_ADVANCE(reg)
  /\ reg' = 0
  /\ tpost' = [tpost EXCEPT !.pc = "cnt_ld"]
  /\ UNCHANGED <<kernel, items, head, count, stack, runpc, runit, fault, hist>>
  /\ UNCHANGED ptvars
  /\ UNCHANGED auxvars

\* RINGBUFFER_PUSH, count++: the load
PostCountLoad ==
  /\ fault = "none" /\ tpost.pc = "cnt_ld"
  /\ reg' = count
  /\ tpost' = [tpost EXCEPT !.pc = "cnt_st"]
  /\ UNCHANGED <<kernel, queue, stack, runpc, runit, fault, hist>>
  /\ UNCHANGED ptvars
  /\ UNCHANGED auxvars

\* RINGBUFFER_PUSH, count++: the store; process_post returns true
PostCountStore ==
  /\ fault = "none" /\ tpost.pc = "cnt_st"
  /\ count' = reg + 1
  /\ reg' = 0
  /\ tpost' = NoPost
  /\ postret' = "ok"
  /\ UNCHANGED <<kernel, items, head, tail, stack, runpc, runit, fault,
                 nposted, posted, dlog, deq, nreq, pend>>
  /\ UNCHANGED ptvars
  /\ UNCHANGED auxvars

\* ------------------------------------- the task body and its return
\* PROCESS_CONTEXT_END (process.h:338): PROCESS_THIS() = process_backup
\* (mutant: the current task is left as the body had it)
PROCESS_CONTEXT_END_keep(backup) == process_current
PROCESS_CONTEXT_END(backup) == backup

\* process.c:228-235: what process_deliver_event does with the body's
\* return value pstate, after the body stored newlc in its resume point
ThreadReturn(newlc, pstate) ==
  LET p  == Top.p
      pr == slist_prev(next, p)
  IN /\ InBody
     /\ lc' = [lc EXCEPT ![p] = newlc]
     /\ IF pstate = PT_STATE_TERMINATED /\ pr \in {"HANG", "NULLDEREF"}
        THEN /\ fault' = (IF pr = "HANG" THEN "hang" ELSE "nullderef")
             /\ UNCHANGED <<next, process_current, stack>>
        ELSE /\ next' = (IF pstate = PT_STATE_TERMINATED
                         THEN slist_erase(next, p) ELSE next)
             /\ process_current' = PROCESS_CONTEXT_END(Top.backup)
             /\ stack' = SubSeq(stack, 1, Len(stack) - 1)
             /\ UNCHANGED fault
     /\ postret' = "none"
     /\ UNCHANGED <<pollreq, process_global_pollreq, queue, runpc, runit,
                    tpost, reg, nposted, posted, dlog, deq, nreq, pend>>

\* the return of a body that called no timer function
BodyReturn(newlc, pstate) ==
  /\ ThreadReturn(newlc, pstate)
  /\ UNCHANGED ptvars
  /\ UNCHANGED auxvars

\* PROCESS_BEGIN on an EXIT event: PT_EXIT
BodyExit == InBody /\ Top.term /\ BodyReturn(LC_DEFAULT, PT_STATE_TERMINATED)

\* PROCESS_WAIT_EVENT, PROCESS_WAIT_ANY_EVENT: LC_SET_YIELD
BodyYield == InBody /\ ~Top.term /\ BodyReturn(LC_LINE, PT_STATE_WAITING)

\* PROCESS_END: PT_END
BodyEnd == InBody /\ ~Top.term /\ BodyReturn(LC_DEFAULT, PT_STATE_TERMINATED)

\* PT_RESTART
BodyRestart == InBody /\ ~Top.term /\ BodyReturn(PT_INIT, PT_STATE_WAITING)

\* --------------------------------------------------------- process_run
\* the call, from the main loop
process_run ==
  /\ Idle
  /\ runpc' = "while"
  /\ deq' = 0
  /\ pend' = [p \in Procs |-> IF pend[p] = 1 THEN 2 ELSE pend[p]]
  /\ postret' = "none"
  /\ UNCHANGED <<kernel, queue, stack, runit, tpost, reg, fault, nposted,
                 posted, dlog, nreq>>
  /\ UNCHANGED ptvars
  /\ UNCHANGED auxvars

\* process.c:320-326: while(process_global_pollreq), the clear and the
\* start of plist_foreach
RunWhile ==
  /\ InRun /\ runpc = "while"
  /\ IF process_global_pollreq
     THEN /\ process_global_pollreq' = FALSE
          /\ runit' = next[process_running_list]
          /\ runpc' = "foreach"
     ELSE /\ runpc' = "ptimer"
          /\ UNCHANGED <<process_global_pollreq, runit>>
  /\ UNCHANGED <<lc, pollreq, next, process_current, queue, stack, tpost, reg,
                 fault, hist>>
  /\ UNCHANGED ptvars
  /\ UNCHANGED auxvars

\* process.c:330: what the poll drain stores in the flag of the task it
\* dispatches (mutant: the flag is left set)
PollreqAfterDispatch_keep == TRUE
PollreqAfterDispatch == FALSE

\* process.c:326-331: the loop test of plist_foreach, the test of the
\* task's flag, its clear and process_post_sync(process, POLL, NULL)
RunForeach ==
  /\ InRun /\ runpc = "foreach"
  /\ IF runit = process_running_list
     THEN /\ runpc' = "while"
          /\ runit' = NULL
          /\ UNCHANGED <<pollreq, fault, nreq, pend, stack, process_current>>
     ELSE IF runit = NULL
     THEN /\ fault' = "nullderef"
          /\ UNCHANGED <<pollreq, runpc, runit, nreq, pend, stack,
                         process_current>>
     ELSE IF pollreq[runit]
     THEN /\ pollreq' = [pollreq EXCEPT ![runit] = PollreqAfterDispatch]
          /\ nreq' = [nreq EXCEPT ![runit] = 0]
          /\ runpc' = "advance"
          /\ IF Deliverable(runit, PROCESS_EVENT_POLL)
             THEN /\ stack' = <<[Frame(runit, PROCESS_EVENT_POLL, "poll")
                                  EXCEPT !.k = nreq[runit]]>>
                  /\ process_current' = runit
                  /\ pend' = [pend EXCEPT ![runit] = 0]
             ELSE UNCHANGED <<stack, process_current, pend>>
          /\ UNCHANGED <<fault, runit>>
     ELSE /\ runpc' = "advance"
          /\ UNCHANGED <<pollreq, fault, runit, nreq, pend, stack,
                         process_current>>
  /\ UNCHANGED <<lc, next, process_global_pollreq, queue, tpost, reg, nposted,
                 posted, postret, dlog, deq>>
  /\ UNCHANGED ptvars
  /\ UNCHANGED auxvars

\* the increment of plist_foreach: iterator = iterator->next
RunAdvance ==
  /\ InRun /\ runpc = "advance"
  /\ runit' = next[runit]
  /\ runpc' = "foreach"
  /\ UNCHANGED <<kernel, queue, stack, tpost, reg, fault, hist>>
  /\ UNCHANGED ptvars
  /\ UNCHANGED auxvars

\* process.c:338: ptimer_processing() with no ptimer pending
\* (ptimer.c:374, ptimer_pending is false until a ptimer is started)
RunPtimer ==
  /\ InRun /\ runpc = "ptimer"
  /\ ~ptimer_pending
  /\ runpc' = "event"
  /\ UNCHANGED <<kernel, queue, stack, runit, tpost, reg, fault, hist>>
  /\ UNCHANGED ptvars
  /\ UNCHANGED auxvars

\* process.c:342-344: the RINGBUFFER_COUNT test and the delivery of the
\* record at the head of the queue
RunEvent ==
  /\ InRun /\ runpc = "event"
  /\ IF count = 0
     THEN /\ runpc' = "ret"
          /\ UNCHANGED <<stack, process_current, dlog, deq, fault>>
     ELSE LET e == items[head]
          IN /\ dlog' = Append(dlog, e)
             /\ deq' = deq + 1
             /\ IF e.to = NULL
                THEN /\ fault' = "nullderef"
                     /\ UNCHANGED <<stack, process_current, runpc>>
                ELSE /\ runpc' = "head_ld"
                     /\ UNCHANGED fault
                     /\ IF Deliverable(e.to, e.id)
                        THEN /\ stack' = <<Frame(e.to, e.id, "queue")>>
                             /\ process_current' = e.to
                        ELSE UNCHANGED <<stack, process_current>>
  /\ UNCHANGED <<lc, pollreq, next, process_global_pollreq, queue, runit,
                 tpost, reg, nposted, posted, postret, nreq, pend>>
  /\ UNCHANGED ptvars
  /\ UNCHANGED auxvars

\* RINGBUFFER_POP, ++head with the wrap: the load
RunHeadLoad ==
  /\ InRun /\ runpc = "head_ld"
  /\ reg' = head
  /\ runpc' = "head_st"
  /\ UNCHANGED <<kernel, queue, stack, runit, tpost, fault, hist>>
  /\ UNCHANGED ptvars
  /\ UNCHANGED auxvars

\* RINGBUFFER_POP, ++head with the wrap: the store
RunHeadStore ==
  /\ InRun /\ runpc = "head_st"
  /\ head' = RINGBUFFER_ADVANCE(reg)
  /\ reg' = 0
  /\ runpc' = "cnt_ld"
  /\ UNCHANGED <<kernel, items, tail, count, stack, runit, tpost, fault, hist>>
  /\ UNCHANGED ptvars
  /\ UNCHANGED auxvars

\* RINGBUFFER_POP, count--: the load
RunCountLoad ==
  /\ InRun /\ runpc = "cnt_ld"
  /\ reg' = count
  /\ runpc' = "cnt_st"
  /\ UNCHANGED <<kernel, queue, stack, runit, tpost, fault, hist>>
  /\ UNCHANGED ptvars
  /\ UNCHANGED auxvars

\* process.c:342: the queue is drained by an if, not by a loop: where
\* process_run goes after RINGBUFFER_POP (mutant: a loop)
RunAfterPop_loop == "event"
RunAfterPop == "ret"

\* RINGBUFFER_POP, count--: the store
RunCountStore ==
  /\ InRun /\ runpc = "cnt_st"
  /\ count' = reg - 1
  /\ reg' = 0
  /\ runpc' = RunAfterPop
  /\ UNCHANGED <<kernel, items, head, tail, stack, runit, tpost, fault, hist>>
  /\ UNCHANGED ptvars
  /\ UNCHANGED auxvars

\* process.c:358: process_run returns to the main loop
RunReturn ==
  /\ InRun /\ runpc = "ret"
  /\ runpc' = "idle"
  /\ deq' = 0
  /\ UNCHANGED <<kernel, queue, stack, runit, tpost, reg, fault, nposted,
                 posted, postret, dlog, nreq, pend>>
  /\ UNCHANGED ptvars
  /\ UNCHANGED auxvars

\* ------------------------------------------------- interrupt handlers
\* process_post called by an interrupt handler: it runs to completion
IsrPost(to, id) ==
  /\ fault = "none"
  /\ RINGBUFFER_FULL \/ nposted < MaxPosts
  /\ IF RINGBUFFER_FULL
     THEN UNCHANGED <<queue, nposted, posted>>
     ELSE /\ items' = [items EXCEPT ![tail] = Event(to, id, nposted + 1)]
          /\ tail' = RINGBUFFER_ADVANCE(tail)
          /\ count' = count + 1
          /\ head' = head
          /\ nposted' = nposted + 1
          /\ posted' = Append(posted, Event(to, id, nposted + 1))
  /\ UNCHANGED <<kernel, stack, runpc, runit, tpost, reg, fault, postret,
                 dlog, deq, nreq, pend>>
  /\ UNCHANGED ptvars
  /\ UNCHANGED auxvars

\* process_poll called by an interrupt handler
IsrPoll(p) ==
  /\ fault = "none"
  /\ PollEffect(p)
  /\ pend' = [pend EXCEPT ![p] =
                IF @ = 0 /\ PROCESS_IS_RUNNING(p) THEN 1 ELSE @]
  /\ UNCHANGED <<lc, next, process_current, queue, stack, runpc, runit, tpost,
                 reg, fault, nposted, posted, postret, dlog, deq>>
  /\ UNCHANGED ptvars
  /\ UNCHANGED auxvars

\* ------------------------------------------------------------ ptimer.c
\* the ptimer list is an slist (myosconf.h:45)
ptlist_prev(nx, node) ==
  slist_prev_walk(nx, node, node, Cardinality(PtNodes) + 1)

ptlist_push_front(nx, node) ==
  [nx EXCEPT ![node] = nx[ptimer_running_list],
             ![ptimer_running_list] = node]

\* mutant: the node stays linked
ptlist_erase_none(nx, node) == nx
ptlist_erase(nx, node) == [nx EXCEPT ![ptlist_prev(nx, node)] = nx[node]]

Remove(seq, t) == SelectSeq(seq, LAMBDA x : x # t)

\* who may call the ptimer functions: task code between two sweeps, or the
\* handler in progress, which has MaxHOps calls
PtCanCall == ptfault = "none" /\ (ptpc = "idle" \/ (ptpc = "handler" /\ hops > 0))
PtCharged == IF ptpc = "handler" THEN hops - 1 ELSE hops

\* ptimer.c:161-177
ptimer_next_stop_update(this_stop) ==
  /\ ptimer_next_stop' =
        (IF ptimer_pending
         THEN (IF timestamp_less_than(this_stop, ptimer_next_stop)
               THEN this_stop ELSE ptimer_next_stop)
         ELSE this_stop)
  /\ ptimer_pending' = TRUE

\* ptimer.c:205: the test that keeps a running ptimer from being linked
\* again (mutant: it is linked whenever it is added)
IsLinked_never(t) == FALSE
IsLinked(t) == running[t]

\* ptimer.c:203-219, after the timer_* call that produced tm
ptimer_add_to_list(t, tm) ==
  /\ timer' = [timer EXCEPT ![t] = tm]
  /\ ptnext' = (IF IsLinked(t) THEN ptnext ELSE ptlist_push_front(ptnext, t))
  /\ insord' = (IF running[t] THEN insord ELSE Append(insord, t))
  /\ running' = [running EXCEPT ![t] = TRUE]
  /\ ptimer_next_stop_update(timer_timestamp_stop(tm))
  /\ due' = due \ {t}
  /\ hstarted' = (IF ptpc = "handler" THEN hstarted \cup {t} ELSE hstarted)
  /\ hops' = PtCharged
  /\ UNCHANGED <<now, ptpc, curr, nxt, ptfault, elapsed>>
  /\ UNCHANGED procvars
  /\ UNCHANGED auxvars

\* ptimer.c:343-348
ptimer_start(t, span) ==
  /\ PtCanCall
  /\ handler' = [handler EXCEPT ![t] = TRUE]
  /\ ptimer_add_to_list(t, timer_start(timer[t], span))

\* ptimer.c:351-355, for a record that has been started before
ptimer_restart(t) ==
  /\ PtCanCall /\ handler[t]
  /\ ptimer_add_to_list(t, timer_restart(timer[t]))
  /\ UNCHANGED handler

\* ptimer.c:358-362, for a record whose span has run out (the next period
\* of a periodic timer)
ptimer_reset(t) ==
  /\ PtCanCall /\ handler[t] /\ ptimer_expired(t)
  /\ ptimer_add_to_list(t, timer_reset(timer[t]))
  /\ UNCHANGED handler

\* ptimer_stop (ptimer.h:242) is ptimer_remove_from_list, ptimer.c:246-257
ptimer_remove_from_list(t) ==
  LET pr == ptlist_prev(ptnext, t)
  IN /\ PtCanCall
     /\ hops' = PtCharged
     /\ IF ~running[t]
        THEN UNCHANGED <<running, ptnext, insord, due, ptfault>>
        ELSE IF pr \in {"HANG", "NULLDEREF"}
        THEN /\ ptfault' = (IF pr = "HANG" THEN "hang" ELSE "nullderef")
             /\ running' = [running EXCEPT ![t] = FALSE]
             /\ UNCHANGED <<ptnext, insord, due>>
        ELSE /\ running' = [running EXCEPT ![t] = FALSE]
             /\ ptnext' = ptlist_erase(ptnext, t)
             /\ insord' = Remove(insord, t)
             /\ due' = due \ {t}
             /\ UNCHANGED ptfault
     /\ UNCHANGED <<now, timer, handler, ptimer_pending, ptimer_next_stop,
                    ptpc, curr, nxt, elapsed, hstarted>>
     /\ UNCHANGED procvars
     /\ UNCHANGED auxvars

\* the wall-clock counter advances; it does so at any point of the thread
Tick ==
  /\ ptfault = "none" /\ elapsed < MaxTime
  /\ now' = TsAdd(now, 1)
  /\ elapsed' = elapsed + 1
  /\ UNCHANGED <<timer, running, handler, ptnext, ptimer_pending,
                 ptimer_next_stop, ptpc, curr, nxt, hops, ptfault, insord,
                 due, hstarted>>
  /\ UNCHANGED procvars
  /\ UNCHANGED auxvars

\* ptimer.c:370-398, called by process_run (process.c:338), and the entry
\* of the POLL delivery into ptimer_process up to the first loop test
\* (ptimer.c:299-305)
ptimer_processing ==
  /\ ptfault = "none" /\ ptpc = "idle"
  /\ due' = {t \in Ptimers : running[t] /\ ptimer_expired(t)}
  /\ IF ptimer_pending /\ timestamp_passed(ptimer_next_stop)
     THEN /\ ptimer_pending' = FALSE
          /\ curr' = ptnext[ptimer_running_list]
          /\ ptpc' = "loop"
     ELSE UNCHANGED <<ptimer_pending, curr, ptpc>>
  /\ hstarted' = {}
  /\ UNCHANGED <<now, timer, running, handler, ptnext, ptimer_next_stop,
                 nxt, hops, ptfault, elapsed, insord>>
  /\ UNCHANGED procvars
  /\ UNCHANGED auxvars

\* ptimer.c:306-335: one pass of the sweep loop, up to the call of the
\* handler or to the end of the pass
PtSweep ==
  LET pr == ptlist_prev(ptnext, curr)
  IN /\ ptfault = "none" /\ ptpc = "loop"
     /\ IF curr = ptimer_running_list
        THEN /\ ptpc' = "idle" /\ curr' = NULL /\ nxt' = NULL
             /\ UNCHANGED <<running, ptnext, ptimer_pending,
                            ptimer_next_stop, hops, ptfault, insord, due>>
        ELSE IF ~ptimer_expired(curr)
        THEN /\ ptimer_next_stop_update(timer_timestamp_stop(timer[curr]))
             /\ curr' = ptnext[curr] /\ nxt' = NULL
             /\ UNCHANGED <<running, ptnext, ptpc, hops, ptfault, insord,
                            due>>
        ELSE IF pr \in {"HANG", "NULLDEREF"}
        THEN /\ ptfault' = (IF pr = "HANG" THEN "hang" ELSE "nullderef")
             /\ nxt' = ptnext[curr]
             /\ UNCHANGED <<running, ptnext, ptimer_pending,
                            ptimer_next_stop, ptpc, curr, hops, insord, due>>
        ELSE /\ nxt' = ptnext[curr]
             /\ ptnext' = ptlist_erase(ptnext, curr)
             /\ running' = [running EXCEPT ![curr] = FALSE]
             /\ insord' = Remove(insord, curr)
             /\ due' = due \ {curr}
             /\ IF handler[curr]
                THEN ptpc' = "handler" /\ hops' = MaxHOps /\ curr' = curr
                ELSE ptpc' = "loop" /\ hops' = hops /\ curr' = ptnext[curr]
             /\ UNCHANGED <<ptimer_pending, ptimer_next_stop, ptfault>>
     /\ hstarted' = (IF curr = ptimer_running_list THEN {} ELSE hstarted)
     /\ UNCHANGED <<now, timer, handler, elapsed>>
     /\ UNCHANGED procvars
     /\ UNCHANGED auxvars

\* ptimer.c:324, 334: the handler returns; curr = next
PtHandlerReturn ==
  /\ ptfault = "none" /\ ptpc = "handler"
  /\ ptpc' = "loop"
  /\ curr' = nxt /\ nxt' = NULL
  /\ hops' = 0
  /\ UNCHANGED <<now, timer, running, handler, ptnext, ptimer_pending,
                 ptimer_next_stop, ptfault, elapsed, insord, due, hstarted>>
  /\ UNCHANGED procvars
  /\ UNCHANGED auxvars

\* the step of the sweep that calls the handler of curr (ptimer.c:324)
Fire == ptpc = "loop" /\ ptpc' = "handler"

\* u was linked before t and both still are
Before(u, t) ==
  \E i, j \in DOMAIN insord : i < j /\ insord[i] = u /\ insord[j] = t

\* the nodes ptlist_foreach visits from it on
RECURSIVE ptlist_seq(_, _, _)
ptlist_seq(nx, it, fuel) ==
  IF it = ptimer_running_list \/ it = NULL \/ fuel = 0 THEN <<>>
  ELSE <<it>> \o ptlist_seq(nx, nx[it], fuel - 1)

PtListed == ptlist_seq(ptnext, ptnext[ptimer_running_list],
                       Cardinality(PtNodes) + 1)

\* ------------------------------------------------- etimer.c, etimer.h
\* the task of main.c:38-62: it sleeps in a loop on its own etimer
LC_SLEEP == 57                 \* the __LINE__ of PROCESS_SLEEP, main.c:57
Sleepers == {"A"}
ptimer_process == "PTIMER"     \* the task of ptimer.c:262
\* the etimer of a sleeping task (main.c:41) and the evt.to, evt.from that
\* etimer_start stores in it (etimer.c:85-86, etimer.h:217)
Et(p) == IF p = "A" THEN "P1" ELSE "P2"
EtTask(t) == IF t = "P1" THEN "A" ELSE "B"

\* etimer.c:81-88: ptimer_start(&etimer->ptimer, span,
\* etimer_timeout_handler), that is ptimer.c:343-348 and 203-219
etimer_start(t, span) ==
  LET tm == timer_start(timer[t], span)
  IN /\ handler' = [handler EXCEPT ![t] = TRUE]
     /\ timer' = [timer EXCEPT ![t] = tm]
     /\ ptnext' = (IF IsLinked(t) THEN ptnext ELSE ptlist_push_front(ptnext, t))
     /\ insord' = (IF running[t] THEN insord ELSE Append(insord, t))
     /\ running' = [running EXCEPT ![t] = TRUE]
     /\ ptimer_next_stop_update(timer_timestamp_stop(tm))
     /\ due' = due \ {t}
     /\ UNCHANGED <<now, ptpc, curr, nxt, hops, ptfault, elapsed, hstarted>>

\* the body has reached PROCESS_SLEEP, or it waits there and the event is
\* the one PROCESS_WAIT_EVENT(PROCESS_EVENT_CONTINUE) waits for
SleeperRuns ==
  /\ InBody /\ ~Top.term /\ Top.p \in Sleepers
  /\ lc[Top.p] # LC_SLEEP \/ Top.id = PROCESS_EVENT_CONTINUE

\* etimer.h:215-219: etimer_start(et, span, PROCESS_THIS(),
\* PROCESS_EVENT_CONTINUE, NULL) and the yield of PROCESS_WAIT_EVENT
PROCESS_SLEEP(span) ==
  /\ SleeperRuns
  /\ ptfault = "none" /\ ptpc = "idle"
  /\ etimer_start(Et(Top.p), span)
  /\ ThreadReturn(LC_SLEEP, PT_STATE_WAITING)
  /\ UNCHANGED auxvars

\* the sleeping task leaves its loop: PROCESS_END
SleeperEnd == SleeperRuns /\ BodyEnd

\* process.c:338 and ptimer.c:370-398: ptimer_processing called by
\* process_run; the POLL delivery enters ptimer_process (process.c:212,
\* ptimer.c:299-305)
RunPtimerProcessing ==
  /\ InRun /\ runpc = "ptimer"
  /\ ptfault = "none" /\ ptpc = "idle"
  /\ hposted' = {}
  /\ owed' = {p \in Sleepers : /\ lc[p] = LC_SLEEP
                               /\ running[Et(p)]
                               /\ ptimer_expired(Et(p))}
  /\ due' = {t \in Ptimers : running[t] /\ ptimer_expired(t)}
  /\ IF ptimer_pending /\ timestamp_passed(ptimer_next_stop)
     THEN /\ ptimer_pending' = FALSE
          /\ curr' = ptnext[ptimer_running_list]
          /\ ptpc' = "loop"
          /\ runpc' = "sweep"
          /\ process_current' = ptimer_process
     ELSE /\ runpc' = "event"
          /\ UNCHANGED <<ptimer_pending, curr, ptpc, process_current>>
  /\ UNCHANGED <<lc, pollreq, next, process_global_pollreq, queue, stack,
                 runit, tpost, reg, fault, hist>>
  /\ hstarted' = {}
  /\ UNCHANGED <<now, timer, running, handler, ptnext, ptimer_next_stop,
                 nxt, hops, ptfault, elapsed, insord>>
  /\ UNCHANGED <<rtvars, libvars>>

\* one pass of the sweep loop of ptimer_process, inside process_run
RunSweep == InRun /\ runpc = "sweep" /\ PtSweep

\* ptimer_process yields at PROCESS_WAIT_EVENT (ptimer.c:296);
\* PROCESS_CONTEXT_END of process.c:234; ptimer_processing returns
RunSweepReturn ==
  /\ InRun /\ runpc = "sweep"
  /\ ptfault = "none" /\ ptpc = "idle"
  /\ runpc' = "event"
  /\ process_current' = NULL
  /\ UNCHANGED <<lc, pollreq, next, process_global_pollreq, queue, stack,
                 runit, tpost, reg, fault, hist>>
  /\ UNCHANGED ptvars
  /\ UNCHANGED auxvars

\* etimer.c:64-77 built with CONFIG_MYOS_ETIMER_DEFER_EVENTS: the handler
\* of the expired etimer curr posts the etimer's event in the context of
\* evt->from (process.c:133-169), and returns to the sweep (ptimer.c:334)
etimer_timeout_handler ==
  LET to == EtTask(curr)
      e  == [id |-> PROCESS_EVENT_CONTINUE, data |-> nposted + 1,
             from |-> to, to |-> to]
  IN /\ InRun /\ runpc = "sweep"
     /\ ptfault = "none" /\ ptpc = "handler"
     /\ RINGBUFFER_FULL \/ nposted < MaxPosts
     /\ IF RINGBUFFER_FULL
        THEN UNCHANGED <<queue, nposted, posted, hposted>>
        ELSE /\ items' = [items EXCEPT ![tail] = e]
             /\ tail' = RINGBUFFER_ADVANCE(tail)
             /\ count' = count + 1
             /\ head' = head
             /\ nposted' = nposted + 1
             /\ posted' = Append(posted, e)
             /\ hposted' = hposted \cup {nposted + 1}
     /\ ptpc' = "loop"
     /\ curr' = nxt /\ nxt' = NULL
     /\ hops' = 0
     /\ UNCHANGED <<kernel, stack, runpc, runit, tpost, reg, fault, postret,
                    dlog, deq, nreq, pend>>
     /\ UNCHANGED <<now, timer, running, handler, ptnext, ptimer_pending,
                    ptimer_next_stop, ptfault, elapsed, insord, due,
                    hstarted>>
     /\ UNCHANGED owed
     /\ UNCHANGED <<rtvars, libvars>>

\* etimer.c:74, built without CONFIG_MYOS_ETIMER_DEFER_EVENTS: the handler
\* of the expired etimer t calls process_deliver_event(&etimer->evt), which
\* invokes the body of evt->to exactly if that task is running
\* (process.c:210); the state of the event queue plays no part
etimer_timeout_sync_delivers(t) ==
  Deliverable(EtTask(t), PROCESS_EVENT_CONTINUE)

\* ------------------------------------------- rtimer.c, mutex.c
\* critical.h:76: CRITICAL_SECTION_BEGIN disables the interrupts
\* (critical_arch.h is not part of the sources; mutant: it does not)
CRITICAL_SECTION_BEGIN_open == FALSE
CRITICAL_SECTION_BEGIN == TRUE

\* the thread executes: no interrupt is in service, and none is pending
\* unless the interrupts are disabled
AtTask == rfault = "none" /\ (rpc = "none" \/ (rpc = "pending" /\ irqoff))

\* rtimer_lock (rtimer.c:42-45) called by a task: mutex_lock is entered
rtimer_lock ==
  /\ AtTask /\ lk.pc = "none"
  /\ lk' = [pc |-> "begin", was |-> FALSE, status |-> FALSE]
  /\ UNCHANGED <<rnow, rt, rtimer_next, rtimer_mutex, alarm, rpc, rloc, irqoff,
                 rfault, rticks, owners, cblock, fires, ran, rt0>>
  /\ UNCHANGED acq
  /\ UNCHANGED <<procvars, ptvars, etvars, libvars>>

\* mutex.c:6-8: status = false; CRITICAL_SECTION_BEGIN()
MutexLockBegin ==
  /\ AtTask /\ lk.pc = "begin"
  /\ irqoff' = CRITICAL_SECTION_BEGIN
  /\ lk' = [lk EXCEPT !.pc = "test"]
  /\ UNCHANGED <<rnow, rt, rtimer_next, rtimer_mutex, alarm, rpc, rloc, rfault,
                 rticks, owners, cblock, fires, ran, rt0>>
  /\ UNCHANGED acq
  /\ UNCHANGED <<procvars, ptvars, etvars, libvars>>

\* mutex.c:10: if (*mutex == false)
MutexLockTest ==
  /\ AtTask /\ lk.pc = "test"
  /\ lk' = [lk EXCEPT !.pc = (IF rtimer_mutex THEN "end" ELSE "set"),
                      !.was = rtimer_mutex]
  /\ UNCHANGED <<rnow, rt, rtimer_next, rtimer_mutex, alarm, rpc, rloc, irqoff,
                 rfault, rticks, owners, cblock, fires, ran, rt0>>
  /\ UNCHANGED acq
  /\ UNCHANGED <<procvars, ptvars, etvars, libvars>>

\* mutex.c:12-13: *mutex = true; status = true
MutexLockSet ==
  /\ AtTask /\ lk.pc = "set"
  /\ rtimer_mutex' = TRUE
  /\ lk' = [lk EXCEPT !.pc = "end", !.status = TRUE]
  /\ owners' = [owners EXCEPT !.task = @ + 1]
  /\ UNCHANGED <<rnow, rt, rtimer_next, alarm, rpc, rloc, irqoff, rfault,
                 rticks, cblock, fires, ran, rt0>>
  /\ UNCHANGED acq
  /\ UNCHANGED <<procvars, ptvars, etvars, libvars>>

\* mutex.c:16-18: CRITICAL_SECTION_END(); return status
MutexLockEnd ==
  /\ AtTask /\ lk.pc = "end"
  /\ irqoff' = FALSE
  /\ lk' = NoLock
  /\ UNCHANGED <<rnow, rt, rtimer_next, rtimer_mutex, alarm, rpc, rloc, rfault,
                 rticks, owners, cblock, fires, ran, rt0>>
  /\ acq' = (acq \/ lk.status)
  /\ UNCHANGED <<procvars, ptvars, etvars, libvars>>

\* rtimer_lock called by an interrupt handler: it runs to completion
IsrRtimerLock ==
  /\ AtTask /\ ~irqoff
  /\ rtimer_mutex' = TRUE
  /\ owners' = (IF rtimer_mutex THEN owners ELSE [owners EXCEPT !.isr = @ + 1])
  /\ UNCHANGED <<rnow, rt, rtimer_next, alarm, rpc, rloc, lk, irqoff, rfault,
                 rticks, cblock, fires, ran, rt0>>
  /\ UNCHANGED acq
  /\ UNCHANGED <<procvars, ptvars, etvars, libvars>>

\* rtimer.h:73
rtimer_timestamp_stop(r) == TsAdd(r.start, r.span)

\* rtimer.c:83-91, called by the task that holds the lock (main.c:50-51)
rtimer_start(r, span, cb) ==
  /\ AtTask /\ lk.pc = "none" /\ owners.task > 0
  /\ rt' = [rt EXCEPT ![r] = [start |-> rnow, span |-> span, callback |-> cb]]
  /\ rtimer_next' = r
  /\ alarm' = Armed(rtimer_timestamp_stop(rt'[r]))
  /\ fires' = 0 /\ ran' = 0 /\ rt0' = rnow
  /\ UNCHANGED <<rnow, rtimer_mutex, rpc, rloc, lk, irqoff, rfault, rticks,
                 owners, cblock>>
  /\ acq' = FALSE
  /\ UNCHANGED <<procvars, ptvars, etvars, libvars>>

\* the counter of the rtimer advances; the comparator raises its interrupt
\* when the counter reaches the armed stop time, once
RtTick ==
  /\ rfault = "none" /\ rpc = "none"
  /\ rticks < MaxRTime
  /\ rnow' = TsAdd(rnow, 1)
  /\ rticks' = rticks + 1
  /\ IF alarm.armed /\ alarm.stop = rnow'
     THEN alarm' = NoAlarm /\ rpc' = "pending" /\ fires' = fires + 1
     ELSE UNCHANGED <<alarm, rpc, fires>>
  /\ UNCHANGED <<rt, rtimer_next, rtimer_mutex, rloc, lk, irqoff, rfault,
                 owners, cblock, ran, rt0>>
  /\ UNCHANGED acq
  /\ UNCHANGED <<procvars, ptvars, etvars, libvars>>

\* rtimer.c:62: where rtimer_scheduler calls rtimer_release (mutant: after
\* the callback has returned)
TrampolineReleases_after == "after"
TrampolineReleases == "before"

\* rtimer.c:59-64: the interrupt enters rtimer_scheduler
\* (rtimer_arch.c:29-39); rtimer = rtimer_next; rtimer_release()
rtimer_scheduler ==
  /\ rfault = "none" /\ rpc = "pending" /\ ~irqoff
  /\ rloc' = rtimer_next
  /\ IF TrampolineReleases = "before"
     THEN /\ rtimer_next' = NULL /\ rtimer_mutex' = FALSE
          /\ owners' = [task |-> 0, isr |-> 0]
     ELSE UNCHANGED <<rtimer_next, rtimer_mutex, owners>>
  /\ IF rtimer_next = NULL
     THEN rfault' = "nullderef" /\ UNCHANGED rpc
     ELSE /\ rpc' = (IF rt[rtimer_next].callback = NULL THEN "ret" ELSE "cb")
          /\ UNCHANGED rfault
  /\ UNCHANGED <<rnow, rt, alarm, lk, irqoff, rticks, cblock, fires, ran, rt0>>
  /\ UNCHANGED acq
  /\ UNCHANGED <<procvars, ptvars, etvars, libvars>>

\* mutant: the new period starts one tick late
rtimer_reset_late(r) == [r EXCEPT !.start = TsAdd(TsAdd(r.start, r.span), 1)]
\* rtimer.c:102: rtimer->start += rtimer->span
rtimer_reset(r) == [r EXCEPT !.start = TsAdd(r.start, r.span)]

\* rtimer.c:66: rtimer->callback(rtimer->data), the callback of the rtimer
\* that fired, to its return
rtimer_callback ==
  LET cb  == rt[rloc].callback
      rs  == cb \in {"reset", "reset_lock"}
      lck == cb \in {"reset_lock", "lock_start"}
      got == lck /\ ~rtimer_mutex
      new == IF rs THEN rtimer_reset(rt[rloc])
             ELSE IF cb = "lock_start" THEN [rt[rloc] EXCEPT !.start = rnow]
             ELSE rt[rloc]
  IN /\ rfault = "none" /\ rpc = "cb"
     /\ rt' = [rt EXCEPT ![rloc] = new]
     /\ IF cb = "plain"
        THEN UNCHANGED <<rtimer_next, alarm>>
        ELSE rtimer_next' = rloc /\ alarm' = Armed(rtimer_timestamp_stop(new))
     /\ rtimer_mutex' = (rtimer_mutex \/ lck)
     /\ owners' = (IF got THEN [owners EXCEPT !.isr = @ + 1] ELSE owners)
     /\ cblock' = got
     /\ ran' = (IF cb = "lock_start" THEN 0 ELSE ran + 1)
     /\ fires' = (IF cb = "lock_start" THEN 0 ELSE fires)
     /\ rt0' = (IF cb = "lock_start" THEN rnow ELSE rt0)
     /\ rpc' = "ret"
     /\ UNCHANGED <<rnow, rloc, lk, irqoff, rfault, rticks>>
     /\ UNCHANGED acq
     /\ UNCHANGED <<procvars, ptvars, etvars, libvars>>

\* rtimer.c:68: rtimer_scheduler returns and the interrupt ends
RtReturn ==
  /\ rfault = "none" /\ rpc = "ret"
  /\ rpc' = "none"
  /\ rloc' = NULL
  /\ IF TrampolineReleases = "after"
     THEN /\ rtimer_next' = NULL /\ rtimer_mutex' = FALSE
          /\ owners' = [task |-> 0, isr |-> 0]
     ELSE UNCHANGED <<rtimer_next, rtimer_mutex, owners>>
  /\ UNCHANGED <<rnow, rt, alarm, lk, irqoff, rfault, rticks, cblock, fires,
                 ran, rt0>>
  /\ UNCHANGED acq
  /\ UNCHANGED <<procvars, ptvars, etvars, libvars>>

\* rtimer.h:60-66: PROCESS_RTIMER_ACQUIRE calls rtimer_lock until it
\* succeeds; a task that has the lock goes on to rtimer_start
PROCESS_RTIMER_ACQUIRE == ~acq /\ rtimer_lock

\* main.c:50-51: PROCESS_RTIMER_ACQUIRE(); rtimer_start(...), one start for
\* each acquired lock
AcquiredStart(r, span, cb) == acq /\ rtimer_start(r, span, cb)

\* rtimer.c:47-51 and mutex.c:22-25, called by the task that holds the
\* lock: rtimer_next = NULL; the lock is free; the comparator is not touched
rtimer_release ==
  /\ AtTask /\ lk.pc = "none" /\ owners.task > 0
  /\ rtimer_next' = NULL
  /\ rtimer_mutex' = FALSE
  /\ owners' = [task |-> 0, isr |-> 0]
  /\ acq' = FALSE
  /\ UNCHANGED <<rnow, rt, alarm, rpc, rloc, lk, irqoff, rfault, rticks,
                 cblock, fires, ran, rt0>>
  /\ UNCHANGED <<procvars, ptvars, etvars, libvars>>

\* rtimer.c:93-98, called by the task that holds the lock, for a record
\* that has been started before
rtimer_restart(r) ==
  /\ AtTask /\ lk.pc = "none" /\ owners.task > 0
  /\ rt[r].span > 0
  /\ rt' = [rt EXCEPT ![r].start = rnow]
  /\ rtimer_next' = r
  /\ alarm' = Armed(rtimer_timestamp_stop(rt'[r]))
  /\ fires' = 0 /\ ran' = 0 /\ rt0' = rnow
  /\ acq' = FALSE
  /\ UNCHANGED <<rnow, rtimer_mutex, rpc, rloc, lk, irqoff, rfault, rticks,
                 owners, cblock>>
  /\ UNCHANGED <<procvars, ptvars, etvars, libvars>>

\* ------------------------------------------------- pt.h, process.h
LC_YIELD == 692    \* the __LINE__ of the PT_YIELD_UNTIL of the waiting thread
LC_SPAWN == 492    \* the __LINE__ of the PT_SPAWN of the parent
LC_WAIT  == 377    \* the __LINE__ of the PT_WAIT_UNTIL of the child

\* pt.h:703-706: do { LC_SET_YIELD(lc, PT_STATE_WAITING); } while(!(cond)).
\* TRUE when the thread returns PT_STATE_WAITING at the macro: a thread that
\* reaches it stores the line and returns before cond is evaluated; a thread
\* resumed at the stored line evaluates cond and runs the loop body again
\* when it is false
PT_YIELD_UNTIL(resumed, cond) == ~resumed \/ ~cond
\* process.h:535
PROCESS_WAIT_EVENT_UNTIL(resumed, cond) == PT_YIELD_UNTIL(resumed, cond)
\* pt.h:386-392: LC_SET(lc); if(!(condition)) return PT_STATE_WAITING.
\* TRUE when the thread returns PT_STATE_WAITING at the macro
PT_WAIT_UNTIL(condition) == ~condition
\* pt.h:423
PT_WAIT_WHILE(cond) == PT_WAIT_UNTIL(~cond)
\* pt.h:625
PT_SCHEDULE(f) == f
\* pt.h:466
PT_WAIT_THREAD(thread) == PT_WAIT_WHILE(PT_SCHEDULE(thread) = PT_STATE_TERMINATED)

\* a process thread in the shape of pt.h:686-696:
\* PT_BEGIN; PROCESS_WAIT_EVENT_UNTIL(event_cond); PT_END.
\* One invocation: LC_RESUME switches on the stored line (pt.h:152), a
\* thread that has ended jumps to default: of LC_END and returns
\* PT_STATE_TERMINATED (pt.h:184, 353)
waiting_thread ==
  LET resumed == wlc = LC_YIELD
      yields  == wlc # LC_DEFAULT
                 /\ PROCESS_WAIT_EVENT_UNTIL(resumed, event_cond)
  IN /\ wcalls < MaxCalls
     /\ wlc' = IF wlc = LC_DEFAULT THEN LC_DEFAULT
               ELSE IF yields THEN LC_YIELD ELSE LC_DEFAULT
     /\ wret' = IF yields THEN PT_STATE_WAITING ELSE PT_STATE_TERMINATED
     /\ wlast' = [resumed |-> resumed, cond |-> event_cond]
     /\ wcalls' = wcalls + 1
     /\ UNCHANGED <<event_cond, plc, clc, data_ready, pret, cret, ppassed,
                    pcalls, ccalls>>
     /\ UNCHANGED <<procvars, ptvars, etvars, rtvars, wvars, fxvars>>

\* other code sets or clears the condition between two invocations
SetEventCond ==
  /\ wcalls < MaxCalls
  /\ event_cond' = ~event_cond
  /\ UNCHANGED <<wlc, wret, wlast, wcalls, plc, clc, data_ready, pret, cret,
                 ppassed, pcalls, ccalls>>
  /\ UNCHANGED <<procvars, ptvars, etvars, rtvars, wvars, fxvars>>

\* the child of pt.h:372-380: PT_BEGIN; PT_WAIT_UNTIL(data_ready); PT_END.
\* The lc it leaves and the state it returns when entered with lc = l
child_thread(l) ==
  IF l # LC_DEFAULT /\ PT_WAIT_UNTIL(data_ready)
  THEN [lc |-> LC_WAIT, ret |-> PT_STATE_WAITING]
  ELSE [lc |-> LC_DEFAULT, ret |-> PT_STATE_TERMINATED]

\* the parent of pt.h:485-497:
\* PT_BEGIN; PT_SPAWN(pt, &child, child_thread(&child)); PT_END.
\* One invocation: a parent entered at the start runs PT_INIT(child)
\* (pt.h:511), a parent resumed at the line of LC_SET does not; both call the
\* child, and return PT_STATE_WAITING or go on to PT_END as PT_WAIT_THREAD
\* says
parent_thread ==
  /\ pcalls < MaxCalls
  /\ IF plc = LC_DEFAULT
     THEN /\ pret' = PT_STATE_TERMINATED
          /\ UNCHANGED <<plc, clc, cret, ppassed, ccalls>>
     ELSE LET c == child_thread(IF plc = 0 THEN 0 ELSE clc)
          IN /\ clc' = c.lc
             /\ cret' = c.ret
             /\ ccalls' = ccalls + 1
             /\ IF PT_WAIT_THREAD(c.ret)
                THEN /\ plc' = LC_SPAWN
                     /\ pret' = PT_STATE_WAITING
                     /\ UNCHANGED ppassed
                ELSE /\ plc' = LC_DEFAULT
                     /\ pret' = PT_STATE_TERMINATED
                     /\ ppassed' = TRUE
  /\ pcalls' = pcalls + 1
  /\ UNCHANGED <<wlc, event_cond, wret, wlast, wcalls, data_ready>>
  /\ UNCHANGED <<procvars, ptvars, etvars, rtvars, wvars, fxvars>>

\* other code sets or clears the condition of the child
SetDataReady ==
  /\ pcalls < MaxCalls
  /\ data_ready' = ~data_ready
  /\ UNCHANGED <<wlc, event_cond, wret, wlast, wcalls, plc, clc, pret, cret,
                 ppassed, pcalls, ccalls>>
  /\ UNCHANGED <<procvars, ptvars, etvars, rtvars, wvars, fxvars>>

\* ------------------------------------- timer.h: a wall-clock timer
\* half the range of timestamp_t: TIMESTAMP_ARCH_DIFF reads a difference of
\* this size or more as negative
HalfRange == TsMod \div 2

\* the wall-clock counter advances by one tick; once the timer is started,
\* for as long as the time since its start stays below half the range
WallTick ==
  /\ tmset => since < HalfRange - 1
  /\ now' = TsAdd(now, 1)
  /\ since' = IF tmset THEN since + 1 ELSE since
  /\ UNCHANGED <<wtimer, tmset>>
  /\ UNCHANGED <<timer, running, handler, ptnext, ptimer_pending,
                 ptimer_next_stop, ptpc, curr, nxt, hops, ptfault, elapsed,
                 insord, due, hstarted>>
  /\ UNCHANGED <<procvars, etvars, rtvars, mvars, fxvars>>

\* the application calls timer_start(&wtimer, span) (timer.h:113-121)
WallTimerStart(span) ==
  /\ wtimer' = timer_start(wtimer, span)
  /\ tmset' = TRUE
  /\ since' = 0
  /\ UNCHANGED <<procvars, ptvars, etvars, rtvars, mvars, fxvars>>

\* ------------------------------------------------- fxp16.c, fxp16.h
EDOM      == 33
FXP16_Q15 == 15
FXP16_Q15_ONE_HALF   == 16384
FXP16_Q15_ALMOST_ONE == 32767
FXP16_Q15_MINUS_ONE  == -32768
FXP16_Q15_NORM_ONE_PI        == FXP16_Q15_ALMOST_ONE
FXP16_Q15_NORM_MINUS_PI      == FXP16_Q15_MINUS_ONE
FXP16_Q15_NORM_HALF_PI       == FXP16_Q15_ONE_HALF
FXP16_Q15_NORM_MINUS_HALF_PI == -FXP16_Q15_ONE_HALF
CORDIC_K_Q15 == 19898
atan_table_q15_pi ==
  <<8192, 4836, 2555, 1297, 651, 326, 163, 81, 41, 20, 10, 5, 3, 1>>

\* the conversion (int16_t)v of a value of type int
Int16(v) == ((v + 32768) % 65536) - 32768
\* v >> n of a signed v: the arithmetic shift
Asr(v, n) == v \div (2 ^ n)
\* a / b of C with b # 0: the quotient is truncated towards zero
CDiv(a, b) ==
  LET q == (IF a < 0 THEN -a ELSE a) \div (IF b < 0 THEN -b ELSE b)
  IN IF (a < 0) = (b < 0) THEN q ELSE -q
\* what a / 0 leaves in the result where the division does not trap (the
\* SDIV instruction of the Cortex-M with the divide-by-zero trap disabled)
DivZeroQuotient == 0

fxp16_signbit(x) == x < 0
fpxx_sat_m(var, min, max) ==
  IF var < min THEN min ELSE IF var > max THEN max ELSE var
fxp16_sat_m(var) == fpxx_sat_m(var, INT16_MIN, INT16_MAX)
\* fxp16.h:742-747, fxp16.c:114-118: the shift with rounding
fxp32_arshift(var, rshift) ==
  IF rshift > 0
  THEN LET r == Asr(var, rshift - 1)
       IN IF fxp16_signbit(r) THEN Asr(r, 1) ELSE Asr(r, 1) + (r % 2)
  ELSE var

\* fxp16.c:261-266. (divident << frac2) / divisor with divisor = 0 is a
\* division by zero, which C leaves undefined: the call traps, or the
\* quotient is what the divide instruction leaves
fxp16_div ==
  /\ fxcall = "none"
  /\ fxcall' = "fxp16_div"
  /\ IF fxarg.b = 0
     THEN \/ fxfault' = "divzero" /\ UNCHANGED fxres
          \/ /\ fxres' = Int16(fxp16_sat_m(DivZeroQuotient))
             /\ UNCHANGED fxfault
     ELSE /\ fxres' = Int16(fxp16_sat_m(CDiv(fxarg.a * (2 ^ fxarg.nb),
                                             fxarg.b)))
          /\ UNCHANGED fxfault
  /\ UNCHANGED <<fxarg, errno>>
  /\ UNCHANGED <<procvars, ptvars, etvars, rtvars, mvars, wvars>>

\* fxp16.c:500-526: the iterations i..13 of the CORDIC loop on x, y, z
RECURSIVE cordic_loop(_, _)
cordic_loop(v, i) ==
  IF i >= 14 THEN v
  ELSE LET x_shift == Int16(Asr(v.x, i))
           y_shift == Int16(Asr(v.y, i))
           a       == atan_table_q15_pi[i + 1]
       IN IF v.z >= 0
          THEN cordic_loop([x |-> Int16(fxp16_sat_m(v.x - y_shift)),
                            y |-> Int16(fxp16_sat_m(v.y + x_shift)),
                            z |-> v.z - a], i + 1)
          ELSE cordic_loop([x |-> Int16(fxp16_sat_m(v.x + y_shift)),
                            y |-> Int16(fxp16_sat_m(v.y - x_shift)),
                            z |-> v.z + a], i + 1)

\* fxp16.c:466-531: sine and cosine in Q1.15 of an angle in units of pi
cordic_sin_cos_q15_pi(angle_q15) ==
  LET far    == angle_q15 > FXP16_Q15_NORM_HALF_PI
                \/ angle_q15 < FXP16_Q15_NORM_MINUS_HALF_PI
      z      == IF angle_q15 > FXP16_Q15_NORM_HALF_PI
                THEN FXP16_Q15_NORM_ONE_PI - angle_q15
                ELSE IF angle_q15 < FXP16_Q15_NORM_MINUS_HALF_PI
                     THEN FXP16_Q15_NORM_MINUS_PI - angle_q15
                     ELSE angle_q15
      v      == cordic_loop([x |-> CORDIC_K_Q15, y |-> 0, z |-> z], 0)
  IN [cos |-> IF far THEN Int16(-v.x) ELSE v.x, sin |-> v.y]

\* fxp16.c:548-570: the two cases of the switch set errno and return; any
\* other angle is sin/cos, where a cosine of 0 is a division by zero as in
\* fxp16_div
fxp16_tan ==
  LET fp   == fxarg.a
      frac == fxarg.na
      sc   == cordic_sin_cos_q15_pi(fp)
      x    == fxp32_arshift(CDiv(sc.sin * (2 ^ FXP16_Q15), sc.cos),
                            FXP16_Q15 - frac)
      x0   == fxp32_arshift(DivZeroQuotient, FXP16_Q15 - frac)
  IN /\ fxcall = "none"
     /\ fxcall' = "fxp16_tan"
     /\ IF fp = FXP16_Q15_NORM_MINUS_HALF_PI
        THEN errno' = EDOM /\ fxres' = INT16_MAX /\ UNCHANGED fxfault
        ELSE IF fp = FXP16_Q15_NORM_HALF_PI
        THEN errno' = EDOM /\ fxres' = INT16_MIN /\ UNCHANGED fxfault
        ELSE IF sc.cos = 0
        THEN \/ fxfault' = "divzero" /\ UNCHANGED <<fxres, errno>>
             \/ /\ fxres' = Int16(fxp16_sat_m(x0))
                /\ UNCHANGED <<fxfault, errno>>
        ELSE /\ fxres' = Int16(fxp16_sat_m(x))
             /\ UNCHANGED <<fxfault, errno>>
     /\ UNCHANGED fxarg
     /\ UNCHANGED <<procvars, ptvars, etvars, rtvars, mvars, wvars>>

\* fxp16.c:608-625: the iterations i..13 of the vectoring loop on Xi, Yi, Z;
\* the loop ends early when Yi is 0 after an iteration
RECURSIVE atan2_loop(_, _)
atan2_loop(v, i) ==
  IF i >= 14 THEN v
  ELSE LET x_shift == Asr(v.Xi, i)
           y_shift == Asr(v.Yi, i)
           a       == atan_table_q15_pi[i + 1]
           w       == IF v.Yi > 0
                      THEN [Xi |-> v.Xi + y_shift, Yi |-> v.Yi - x_shift,
                            Z |-> v.Z + a]
                      ELSE [Xi |-> v.Xi - y_shift, Yi |-> v.Yi + x_shift,
                            Z |-> v.Z - a]
       IN IF w.Yi = 0 THEN w ELSE atan2_loop(w, i + 1)

\* fxp16.c:575-637: the angle of (x_in, y_in) in Q1.15 in units of pi
fxp16_atan2(y_in, x_in) ==
  IF y_in = 0
  THEN (IF x_in > 0 THEN 0
        ELSE IF x_in < 0 THEN FXP16_Q15_NORM_ONE_PI ELSE 0)
  ELSE IF x_in = 0
  THEN LET half_pi == Int16(Asr(FXP16_Q15_NORM_ONE_PI, 1))
       IN IF y_in > 0 THEN half_pi ELSE Int16(-half_pi)
  ELSE LET y_orig_nonneg == y_in >= 0
           x_orig_neg    == x_in < 0
           v == atan2_loop([Xi |-> IF x_orig_neg THEN -x_in ELSE x_in,
                            Yi |-> IF x_orig_neg THEN -y_in ELSE y_in,
                            Z  |-> 0], 0)
           Z == IF x_orig_neg
                THEN (IF y_orig_nonneg THEN v.Z + FXP16_Q15_NORM_ONE_PI
                      ELSE v.Z - FXP16_Q15_NORM_ONE_PI)
                ELSE v.Z
       IN Int16(fxp16_sat_m(Z))

\* a call fxp16_atan2(a, b) of the application
CallAtan2 ==
  /\ fxcall = "none"
  /\ fxcall' = "fxp16_atan2"
  /\ fxres' = fxp16_atan2(fxarg.a, fxarg.b)
  /\ UNCHANGED <<fxarg, errno, fxfault>>
  /\ UNCHANGED <<procvars, ptvars, etvars, rtvars, mvars, wvars>>

\* fxp16.h:804-814: the low frac bits of the magnitude are cleared
fxp16_intcast_m(result, frac) ==
  IF fxp16_signbit(result)
  THEN -(((-result) \div (2 ^ frac)) * (2 ^ frac))
  ELSE (result \div (2 ^ frac)) * (2 ^ frac)

\* fxp16.c:316-332: a divisor of 0 returns 0 and leaves errno alone; any
\* other divisor gives x minus the whole multiple of y
fxp16_fmod ==
  LET x == fxarg.a
      xfrac == fxarg.na
      y == fxarg.b
      yfrac == fxarg.nb
      q == fxp16_intcast_m(CDiv(x * (2 ^ yfrac), IF y = 0 THEN 1 ELSE y),
                           xfrac)
      result == x - fxp32_arshift(q * y, yfrac)
  IN /\ fxcall = "none"
     /\ fxcall' = "fxp16_fmod"
     /\ fxres' = IF y = 0 THEN 0 ELSE Int16(fxp16_sat_m(result))
     /\ UNCHANGED <<fxarg, errno, fxfault>>
     /\ UNCHANGED <<procvars, ptvars, etvars, rtvars, mvars, wvars>>

\* fxp16.c:384-386: the highest power of 4 that is not above a, or 0
RECURSIVE sqrt_bit(_, _)
sqrt_bit(bit, a) == IF bit > a THEN sqrt_bit(bit \div 4, a) ELSE bit

\* mutant: the test of the loop is strict
sqrt_fits_strict(a, r, bit) == a > r + bit
\* fxp16.c:389: the test of the restoring step
sqrt_fits(a, r, bit) == a >= r + bit

\* fxp16.c:388-396: the restoring square root of a
RECURSIVE sqrt_loop(_, _, _)
sqrt_loop(a, r, bit) ==
  IF bit = 0 THEN r
  ELSE IF sqrt_fits(a, r, bit)
       THEN sqrt_loop(a - (r + bit), (r \div 2) + bit, bit \div 4)
       ELSE sqrt_loop(a, r \div 2, bit \div 4)

\* fxp16.c:376-400 for x >= 0: a is (uint32_t)x << frac_bits, which is
\* below 2^30, the root is limited to 16 bits and returned as a fxp16_t
fxp16_sqrt(x, frac_bits) ==
  LET n == IF frac_bits > 15 THEN 15 ELSE frac_bits
      a == x * (2 ^ n)
      r == sqrt_loop(a, 0, sqrt_bit(2 ^ 30, a))
  IN Int16(IF r > 65535 THEN 65535 ELSE r)

\* a call fxp16_sqrt(a, na) of the application
CallSqrt ==
  /\ fxcall = "none"
  /\ fxcall' = "fxp16_sqrt"
  /\ fxres' = fxp16_sqrt(fxarg.a, fxarg.na)
  /\ UNCHANGED <<fxarg, errno, fxfault>>
  /\ UNCHANGED <<procvars, ptvars, etvars, rtvars, mvars, wvars>>

\* ---------------------------------------------------- specifications
Post == PostFill \/ PostTailLoad \/ PostTailStore \/ PostCountLoad
          \/ PostCountStore
Body == BodyExit \/ BodyYield \/ BodyEnd \/ BodyRestart
Drain == RunWhile \/ RunForeach \/ RunAdvance \/ RunPtimer \/ RunEvent
          \/ RunReturn
\* process_run when no poll was requested: the while of process.c:320 is
\* not entered
DrainNoPoll == RunWhile \/ RunPtimer \/ RunEvent \/ RunReturn
Pop == RunHeadLoad \/ RunHeadStore \/ RunCountLoad \/ RunCountStore

\* the task life cycle and polling: the main loop and the task bodies start
\* and exit tasks, deliver synchronous events and request polls
Next ==
  \/ \E p \in Procs : process_start(p)
  \/ \E p \in Procs : process_exit(p)
  \/ \E p \in Procs, id \in UserIds : process_post_sync(p, id)
  \/ \E p \in Procs : process_poll(p)
  \/ process_run
  \/ Body
  \/ Drain

Spec == Init /\ [][Next]_vars

\* the event queue: the main loop starts tasks, the main loop and the task
\* bodies post queued events; a body waits for its next event or ends;
\* nothing requests a poll
NextQueue ==
  \/ \E p \in Procs : Idle /\ process_start(p)
  \/ \E p \in Procs, id \in PostIds : process_post(p, id)
  \/ process_run
  \/ Post
  \/ BodyYield \/ BodyEnd
  \/ DrainNoPoll
  \/ Pop

SpecQueue == Init /\ [][NextQueue]_vars

\* the event queue with interrupt handlers that post
NextIsrPost ==
  \/ NextQueue
  \/ \E p \in Procs, id \in PostIds : IsrPost(p, id)

SpecIsrPost == Init /\ [][NextIsrPost]_vars

\* polls and queued events together: the main loop starts tasks, requests
\* polls and posts; the task bodies wait for their next event or end
NextPollQueue ==
  \/ \E p \in Procs : Idle /\ process_start(p)
  \/ \E p \in Procs, id \in PostIds : Idle /\ process_post(p, id)
  \/ \E p \in Procs : Idle /\ process_poll(p)
  \/ process_run
  \/ Post
  \/ BodyYield \/ BodyEnd
  \/ Drain
  \/ Pop

SpecPollQueue == Init /\ [][NextPollQueue]_vars

\* the task life cycle with interrupt handlers that request polls
NextIsrPoll ==
  \/ \E p \in Procs : process_start(p)
  \/ \E p \in Procs : process_exit(p)
  \/ process_run
  \/ Body
  \/ Drain
  \/ \E p \in Procs : IsrPoll(p)

SpecIsrPoll == Init /\ [][NextIsrPoll]_vars

\* the task life cycle under a main loop that keeps executing: the one
\* thread of the kernel takes its next step whenever it has one
SpecFair == Spec /\ WF_vars(Next)

\* every kind of delivery: the main loop posts an event when the queue is
\* empty and process_run delivers it, the main loop and the task bodies
\* start tasks, the task bodies deliver synchronous events
NextDeliver ==
  \/ \E p \in Procs : process_start(p)
  \/ \E p \in Procs, id \in UserIds : InBody /\ process_post_sync(p, id)
  \/ \E p \in Procs, id \in PostIds : Idle /\ count = 0 /\ process_post(p, id)
  \/ process_run
  \/ Post
  \/ Body
  \/ DrainNoPoll
  \/ Pop

SpecDeliver == Init /\ [][NextDeliver]_vars

\* the ptimer subsystem: task code and handlers start, restart, reset and
\* stop ptimers, the main loop calls ptimer_processing once per process_run,
\* the counter ticks
NextPtimer ==
  \/ Tick
  \/ \E t \in Ptimers, span \in 0..MaxSpan : ptimer_start(t, span)
  \/ \E t \in Ptimers : ptimer_restart(t)
  \/ \E t \in Ptimers : ptimer_reset(t)
  \/ \E t \in Ptimers : ptimer_remove_from_list(t)
  \/ ptimer_processing
  \/ PtSweep
  \/ PtHandlerReturn

SpecPtimer == Init /\ [][NextPtimer]_vars

\* the ptimer subsystem with two ptimer records in use
NextPtimer2 ==
  \/ Tick
  \/ \E t \in Ptimers2, span \in 0..MaxSpan : ptimer_start(t, span)
  \/ \E t \in Ptimers2 : ptimer_restart(t)
  \/ \E t \in Ptimers2 : ptimer_reset(t)
  \/ \E t \in Ptimers2 : ptimer_remove_from_list(t)
  \/ ptimer_processing
  \/ PtSweep
  \/ PtHandlerReturn

SpecPtimer2 == Init /\ [][NextPtimer2]_vars

\* a task that sleeps on its etimer (deferred delivery), while the main
\* loop posts events to another task; the counter is read between two
\* process_run calls
NextEtimer ==
  \/ \E p \in Sleepers : Idle /\ process_start(p)
  \/ Idle /\ process_post("B", PROCESS_EVENT_TIMEOUT)
  \/ Idle /\ Tick
  \/ process_run
  \/ Post
  \/ \E span \in 0..MaxSpan : PROCESS_SLEEP(span)
  \/ SleeperEnd
  \/ RunWhile
  \/ RunPtimerProcessing
  \/ RunSweep
  \/ RunSweepReturn
  \/ etimer_timeout_handler
  \/ RunEvent
  \/ RunReturn
  \/ Pop

SpecEtimer == Init /\ [][NextEtimer]_vars

\* the rtimer: a task takes the lock and starts the rtimer, the counter
\* ticks, the comparator and the interrupt handlers that take the lock
\* interrupt the task at any point where the interrupts are enabled
NextRtimer ==
  \/ rtimer_lock
  \/ MutexLockBegin \/ MutexLockTest \/ MutexLockSet \/ MutexLockEnd
  \/ IsrRtimerLock
  \/ \E r \in Rtimers, span \in 1..MaxRSpan, cb \in Callbacks \cup {NULL} :
        rtimer_start(r, span, cb)
  \/ RtTick
  \/ rtimer_scheduler
  \/ rtimer_callback
  \/ RtReturn

SpecRtimer == Init /\ [][NextRtimer]_vars

\* the rtimer used as main.c:50-51 does: the task arms it only after
\* PROCESS_RTIMER_ACQUIRE, once for each acquired lock
NextRtimerAcquire ==
  \/ PROCESS_RTIMER_ACQUIRE
  \/ MutexLockBegin \/ MutexLockTest \/ MutexLockSet \/ MutexLockEnd
  \/ IsrRtimerLock
  \/ \E r \in Rtimers, span \in 1..MaxRSpan, cb \in Callbacks \cup {NULL} :
        AcquiredStart(r, span, cb)
  \/ RtTick
  \/ rtimer_scheduler
  \/ rtimer_callback
  \/ RtReturn

SpecRtimerAcquire == Init /\ [][NextRtimerAcquire]_vars

\* the rtimer with every call of rtimer.c: the task that holds the lock
\* also restarts the rtimer and releases the lock
NextRtimerCalls ==
  \/ NextRtimer
  \/ rtimer_release
  \/ \E r \in Rtimers : rtimer_restart(r)

SpecRtimerCalls == Init /\ [][NextRtimerCalls]_vars

\* the protothreads of the pt.h macros, scheduled in any order while other
\* code changes their conditions
NextPt ==
  \/ waiting_thread
  \/ SetEventCond
  \/ parent_thread
  \/ SetDataReady

SpecPt == Init /\ [][NextPt]_vars

\* a wall-clock timer that is started at any time of the counter with any
\* span below half the range, and the counter
NextWall ==
  \/ WallTick
  \/ \E span \in 0..(HalfRange - 1) : WallTimerStart(span)

SpecWall == Init /\ [][NextWall]_vars

\* one call of the fxp16 library with each of the arguments
NextFxp ==
  \/ fxp16_div
  \/ fxp16_tan
  \/ CallAtan2
  \/ fxp16_fmod

SpecFxp == InitFxp /\ [][NextFxp]_vars

\* one call of fxp16_sqrt with each of its arguments
NextSqrt == CallSqrt

SpecSqrt == InitSqrt /\ [][NextSqrt]_vars

\* ------------------------------------------------------------- claims

\* C1: whenever control is outside every task body and outside process_run,
\* a task is linked in the running list if and only if its resume point is
\* neither the initial value 0 nor the terminated value LC_DEFAULT.
C1_LinkedIffRunning ==
  Idle => \A p \in Procs : Linked(p) <=> (lc[p] # PT_INIT /\ lc[p] # LC_DEFAULT)

\* C2: the events process_run dequeues are the successfully posted events in
\* the order of their process_post calls: the i-th dequeued event is the i-th
\* posted one.
C2_Fifo ==
  /\ Len(dlog) <= Len(posted)
  /\ \A i \in DOMAIN dlog : dlog[i].data = posted[i].data

\* a third event is queued behind the second while the first is already
\* dequeued: the ring has wrapped
C2_Witness == Len(dlog) = 1 /\ count = 2 /\ Idle /\ nposted = 3

\* C3: with interrupt handlers that post at any point of the thread, every
\* dequeued record is a posted record with its own to/id/data/from, no
\* ticket is dequeued twice, and when the queue has been drained every
\* successful post has been dequeued.
C3_NoEventLost ==
  /\ \A i \in DOMAIN dlog :
        dlog[i].data \in 1..nposted /\ dlog[i] = posted[dlog[i].data]
  /\ \A i, j \in DOMAIN dlog : i # j => dlog[i].data # dlog[j].data
  /\ (Idle /\ count = 0) => Len(dlog) = nposted

\* C4: with posts from task code and from interrupt handlers the count of
\* the event queue never exceeds its capacity.
C4_CountBounded == count <= RINGBUFFER_SIZE

\* C5: a process_post call returns failure exactly when the queue holds
\* RINGBUFFER_SIZE events that were posted and not yet popped, and a failing
\* call leaves items, head, tail and count as they were.
C5_PostFailsIffFull ==
  [][\A to \in Procs, id \in PostIds :
       process_post(to, id) =>
         /\ (postret' = "full") <=> (Held = RINGBUFFER_SIZE)
         /\ (postret' = "full") => UNCHANGED queue]_vars

\* a task body's post was refused on a full queue and the body goes on
C5_Witness ==
  /\ postret = "full" /\ InBody /\ Held = RINGBUFFER_SIZE
  /\ count = RINGBUFFER_SIZE

\* C6: one call of process_run dequeues at most one event.
C6_OneDequeuePerRun == deq <= 1

\* process_run is about to return after its one dequeue while an event that
\* a task body posted is still queued
C6_Witness ==
  /\ InRun /\ runpc = "ret" /\ deq = 1 /\ count >= 1
  /\ posted[nposted].from # NULL

\* C7: when process_run delivers the queued event, no running task has a
\* poll request pending: every such task got its POLL event earlier in the
\* same call.
C7_PollBeforeEvent ==
  (InRun /\ runpc = "event" /\ count # 0)
     => \A p \in Procs : PROCESS_IS_RUNNING(p) => ~pollreq[p]

\* C8: a poll an interrupt handler requested for a running task before a
\* process_run call is answered by the end of that call: when process_run is
\* about to return, no running task still waits for the POLL of such a poll.
C8_IsrPollNotLost ==
  (InRun /\ runpc = "ret")
     => \A p \in Procs : ~(pend[p] = 2 /\ PROCESS_IS_RUNNING(p))

\* C9: a task's poll flag is set exactly when at least one poll was
\* requested for it since its last dispatch, and every POLL invocation of a
\* body stands for all the k >= 1 requests made since then: the flag and the
\* request count are cleared together by that one dispatch.
C9_PollsCoalesced ==
  /\ \A p \in Procs : pollreq[p] <=> (nreq[p] >= 1)
  /\ \A i \in DOMAIN stack : stack[i].src = "poll" => stack[i].k >= 1

\* a body runs its one POLL invocation for two requests
C9_Witness ==
  /\ InBody /\ Top.src = "poll" /\ Top.k = 2
  /\ ~pollreq[Top.p] /\ nreq[Top.p] = 0

\* C10: every call of process_run returns: once process_run has been
\* entered, control comes back to the main loop.
C10_RunReturns == (runpc # "idle") ~> (runpc = "idle")

\* C11: a process_start call for a task that is not running stores the
\* initial resume point, makes the task the first node of the running list
\* and enters the task's body once with START, on top of the caller, with
\* the task as current task; a call for a running task changes nothing of
\* the kernel or the queue and enters no body.
C11_Start ==
  [][\A p \in Procs :
       process_start(p) =>
         IF PROCESS_IS_RUNNING(p)
         THEN /\ UNCHANGED <<kernel, queue>>
              /\ Len(stack') = Len(stack)
         ELSE /\ lc'[p] = PT_INIT
              /\ next'[process_running_list] = p
              /\ Len(stack') = Len(stack) + 1
              /\ stack'[Len(stack')].p = p
              /\ stack'[Len(stack')].id = PROCESS_EVENT_START
              /\ process_current' = p]_vars

\* a body started a second task: the body of B handles START on top of
\* the body of A, and B is linked in front of A
C11_Witness ==
  /\ InBody /\ Len(stack) = 2 /\ Top.src = "start" /\ Top.p = "B"
  /\ stack[1].p = "A" /\ next[process_running_list] = "B" /\ next["B"] = "A"
  /\ lc["B"] = PT_INIT

\* C12: when the body that process_exit entered returns, the task's resume
\* point is LC_DEFAULT and the task is not in the running list; a
\* process_exit call for a task that is not running enters no body and
\* changes nothing of the kernel.
C12_Exit ==
  [][/\ (InBody /\ Top.src = "exit" /\ Len(stack') < Len(stack))
         => /\ lc'[Top.p] = LC_DEFAULT
            /\ Top.p \notin slist_reach(next', next'[process_running_list],
                                        Cardinality(Nodes) + 1)
     /\ \A p \in Procs :
           (process_exit(p) /\ ~PROCESS_IS_RUNNING(p))
              => (Len(stack') = Len(stack) /\ UNCHANGED kernel)]_vars

\* C13: a body entered with EXIT makes no kernel call and does nothing but
\* return TERMINATED: the only step of the thread from such a state stores
\* LC_DEFAULT in the task's resume point and leaves the body (or stops in
\* the erase of the returning delivery).
C13_ExitAtBegin ==
  [][(InBody /\ Top.id = PROCESS_EVENT_EXIT)
       => /\ lc'[Top.p] = LC_DEFAULT
          /\ \/ Len(stack') = Len(stack) - 1
             \/ fault' # "none"]_vars

\* a task waiting at a resume point has been entered with EXIT
C13_Witness ==
  /\ InBody /\ Top.id = PROCESS_EVENT_EXIT /\ lc[Top.p] = LC_LINE

\* C14: while a body executes the current task is its task, every delivery
\* saved the current task of its caller, and outside every body the current
\* task is what it was before the first delivery (NULL, the main loop).
C14_CurrentTask ==
  /\ stack # <<>> => process_current = Top.p
  /\ stack = <<>> => process_current = NULL
  /\ \A i \in DOMAIN stack :
        stack[i].backup = (IF i = 1 THEN NULL ELSE stack[i - 1].p)

\* a nested delivery has returned into the body that made it
C14_Witness ==
  /\ InBody /\ Len(stack) = 1 /\ Top.ops < MaxOps
  /\ process_current = Top.p /\ \E q \in Procs : q # Top.p /\ lc[q] = LC_LINE

\* C15: the handler of a ptimer is called only while the ptimer is running
\* (started and neither stopped nor fired since) and expired, and every
\* ptimer that was running and expired when process_run called
\* ptimer_processing has had its handler called, or has been stopped or
\* started again, when that call is over or can go no further.
C15_FiresOncePerStart ==
  [][/\ Fire => (running[curr] /\ ptimer_expired(curr))
     /\ (ptpc' = "idle" \/ ptfault' # "none") => due' = {}]_vars

\* C16: when the handler of a ptimer is called, no ptimer that was linked
\* before it is still running and expired (it would be called later in the
\* same sweep).
C16_InsertionOrder ==
  [][Fire => \A u \in Ptimers :
               ~(running[u] /\ ptimer_expired(u) /\ Before(u, curr))]_vars

C19_PendingIffNonEmpty ==
  ptpc = "idle"
     => (ptimer_pending <=> ptnext[ptimer_running_list] # ptimer_running_list)

C21_PostedEventNextRun ==
  (stack # <<>> /\ stack[1].src = "queue" /\ dlog # <<>>)
     => dlog[Len(dlog)].data \notin hposted

\* C22: a task that sleeps is resumed by CONTINUE only when the span of its
\* etimer has run out, and the process_run that finds the span run out
\* delivers CONTINUE to it, once
C22_Sleep ==
  /\ (InBody /\ Top.p \in Sleepers /\ lc[Top.p] = LC_SLEEP
        /\ Top.id = PROCESS_EVENT_CONTINUE)
       => (~running[Et(Top.p)] /\ ptimer_expired(Et(Top.p)))
  /\ (InRun /\ runpc = "ret")
       => \A p \in owed : /\ deq = 1
                          /\ dlog[Len(dlog)].to = p
                          /\ dlog[Len(dlog)].id = PROCESS_EVENT_CONTINUE


\* C23: the rtimer lock has one owner at most: it is held exactly when one
\* rtimer_lock has succeeded since the last release, and a task's
\* rtimer_lock returns success exactly when it found the lock free, with
\* interrupt level callers at any point of the task
C23_OneOwner ==
  /\ owners.task + owners.isr <= 1
  /\ rtimer_mutex <=> (owners.task + owners.isr = 1)
  /\ lk.pc = "end" => (lk.status <=> ~lk.was)

\* an interrupt handler holds the lock and the task's rtimer_lock fails
C23_Witness ==
  /\ lk.pc = "end" /\ lk.was /\ ~lk.status
  /\ owners = [task |-> 0, isr |-> 1]
  /\ rtimer_mutex /\ irqoff

\* C24: when the trampoline returns, the rtimer that the callback armed is
\* still the armed one, and a callback that takes the lock has found it
\* free and still holds it
C24_ReleaseBeforeCallback ==
  [][(rpc = "ret" /\ rpc' = "none") =>
       /\ rt[rloc].callback \in {"reset", "reset_lock", "lock_start"}
            => (rtimer_next' = rloc /\ alarm'.armed)
       /\ rt[rloc].callback \in {"reset_lock", "lock_start"}
            => (cblock /\ rtimer_mutex' /\ owners'.isr = 1)]_vars

\* the trampoline has returned from a callback that took the lock and
\* started its rtimer again
C24_Witness ==
  /\ rpc = "none" /\ rticks >= 1
  /\ rtimer_next = "R1" /\ rt["R1"].callback = "lock_start"
  /\ rt["R1"].start = rnow /\ alarm.armed
  /\ cblock /\ rtimer_mutex /\ owners = [task |-> 0, isr |-> 1]

C26_WaitEvent ==
  wcalls > 0 =>
    /\ (wlast.resumed /\ wret = PT_STATE_WAITING) => ~wlast.cond
    /\ (~wlast.resumed /\ wlast.cond) => wret # PT_STATE_WAITING

\* C27: spawn(child) initializes the child's resume point, keeps the parent
\* waiting and re-invokes the child while the child returns WAITING, and the
\* parent goes on past spawn exactly when the child has returned TERMINATED
C27_Spawn ==
  pcalls > 0 =>
    /\ cret = PT_STATE_WAITING => (pret = PT_STATE_WAITING /\ ~ppassed)
    /\ ppassed <=> cret = PT_STATE_TERMINATED
    /\ pret = PT_STATE_WAITING => ccalls = pcalls

\* C28: a wall-clock timer started at t0 with span s is expired exactly when
\* the counter has reached or passed t0 + s, taken with the signed modular
\* difference, also when the counter wraps between t0 and t0 + s, for every
\* span and every time since the start below half the range of the counter
C28_ExpiredIffPassed ==
  tmset =>
    /\ wtimer.start = TsAdd(now, TsMod - since)
    /\ timer_expired(wtimer) <=> since >= wtimer.span
    /\ timer_expired(wtimer) <=> TIMESTAMP_DIFF(now, TsAdd(wtimer.start, wtimer.span)) >= 0

\* the counter wrapped between the start and the stop time, the timer had
\* not expired at the wrap and has expired now
C28_Witness ==
  /\ tmset /\ wtimer.span >= 2
  /\ TsAdd(wtimer.start, wtimer.span) < wtimer.start
  /\ now < wtimer.start
  /\ since >= wtimer.span
  /\ timer_expired(wtimer)

\* C29: fxp16 div(a, na, b, nb) with the divisor b = 0 returns a saturated
\* 16-bit result, INT16_MAX or INT16_MIN, for every a, and performs no
\* undefined division
C29_DivByZeroSaturates ==
  (fxcall = "fxp16_div" /\ fxarg.b = 0) =>
    (fxfault = "none" /\ fxres \in {INT16_MAX, INT16_MIN})

\* C30: tan(+pi/2), the angle +0.5 in Q1.15 in units of pi, sets errno to
\* EDOM and returns INT16_MAX, and tan(-pi/2), the angle -0.5, sets errno to
\* EDOM and returns INT16_MIN
C30_TanHalfPi ==
  /\ (fxcall = "fxp16_tan" /\ fxarg.a = FXP16_Q15_ONE_HALF) =>
       (errno = EDOM /\ fxres = INT16_MAX)
  /\ (fxcall = "fxp16_tan" /\ fxarg.a = -FXP16_Q15_ONE_HALF) =>
       (errno = EDOM /\ fxres = INT16_MIN)

\* C31: atan2 on zero arguments, in Q1.15 in units of pi: atan2(0, 0) = 0,
\* atan2(0, x > 0) = 0, atan2(0, x < 0) = +pi, atan2(y > 0, 0) = +pi/2 and
\* atan2(y < 0, 0) = -pi/2, where pi/2 is the value 0.5 of the format
C31_Atan2Zeros ==
  fxcall = "fxp16_atan2" =>
    LET y == fxarg.a
        x == fxarg.b
    IN /\ (y = 0 /\ x >= 0) => fxres = 0
       /\ (y = 0 /\ x < 0) => fxres = FXP16_Q15_NORM_ONE_PI
       /\ (y > 0 /\ x = 0) => fxres = FXP16_Q15_ONE_HALF
       /\ (y < 0 /\ x = 0) => fxres = -FXP16_Q15_ONE_HALF

\* C32: for every x > 0 and every y whose negation is a value of the type,
\* atan2(-y, x) is exactly -atan2(y, x)
C32_Atan2Antisymmetry ==
  (fxcall = "fxp16_atan2" /\ fxarg.b > 0 /\ fxarg.a # INT16_MIN) =>
    fxp16_atan2(-fxarg.a, fxarg.b) = -fxres

\* C34: fmod(x, nx, y, ny) with y = 0 returns 0 and sets errno to EDOM
C34_FmodByZero ==
  (fxcall = "fxp16_fmod" /\ fxarg.b = 0) => (fxres = 0 /\ errno = EDOM)

\* C33: for every non-negative x in Qn with n <= 15, sqrt(x, n) is the
\* integer floor of the square root of x * 2^n; the square root of 0.25 in
\* Q15 (8192) is exactly 0.5 in Q15 (16384)
C33_SqrtFloor ==
  (fxcall = "fxp16_sqrt" /\ fxarg.na <= 15) =>
    LET v == fxarg.a * (2 ^ fxarg.na)
    IN /\ fxres >= 0
       /\ fxres * fxres <= v
       /\ (fxres + 1) * (fxres + 1) > v
       /\ (fxarg.a = 8192 /\ fxarg.na = 15) => fxres = 16384

\* the square root of 0.25 in Q15 has been taken
C33_Witness ==
  /\ fxcall = "fxp16_sqrt" /\ fxarg.a = 8192 /\ fxarg.na = 15
  /\ fxres = 16384

\* C35: a ptimer that a handler passes to ptimer_start, ptimer_restart or
\* ptimer_reset during a sweep is not fired by that sweep: the sweep calls
\* the handler only of ptimers that no handler of the same sweep started
C35_StartedNotFiredSameSweep == [][Fire => curr \notin hstarted]_vars

\* C36: the deferred build delivers every timeout event the synchronous
\* build delivers: when the handler of an expired etimer runs and the
\* synchronous handler would invoke the body of the destination with the
\* etimer's event, the deferred handler puts this event (same id, sender
\* and destination) into the event queue, whatever the queue holds
C36_DeferredQueuesWhatSyncDelivers ==
  [][(etimer_timeout_handler /\ etimer_timeout_sync_delivers(curr))
       => /\ count' = count + 1
          /\ items'[tail].id = PROCESS_EVENT_CONTINUE
          /\ items'[tail].from = EtTask(curr)
          /\ items'[tail].to = EtTask(curr)]_vars

\* C37: with tasks that arm the rtimer only after PROCESS_RTIMER_ACQUIRE,
\* the rtimer_start of a task never finds an rtimer armed in the slot whose
\* callback is still to run
C37_NoOverwrite ==
  [][(acq /\ ~acq') => ~(alarm.armed /\ rtimer_next # NULL)]_vars

\* C40: rtimer_scheduler never reads rtimer_next as NULL and dereferences
\* it, with start, restart, reset and release calls and the comparator
\* interrupt in any order
C40_SlotNotNull == rfault # "nullderef"

\* C38: no task is linked in the running list more than once: a walk of
\* the list from its head comes to no task twice
C38_LinkedOnce ==
  \A i, j \in DOMAIN Listed : i # j => Listed[i] # Listed[j]

\* C39: a body is entered with an event other than START only if its task
\* is running when the event is delivered; the delivery of a queued event
\* to a task that is not running enters no body, and the process_run call
\* that made it has removed the event from the queue when it returns
C39_DeliverOnlyIfRunning ==
  [][/\ (Len(stack') > Len(stack)
           /\ stack'[Len(stack')].id # PROCESS_EVENT_START)
          => PROCESS_IS_RUNNING(stack'[Len(stack')].p)
     /\ (RunEvent /\ count # 0 /\ items[head].id # PROCESS_EVENT_START
           /\ ~PROCESS_IS_RUNNING(items[head].to))
          => (stack' = stack /\ runpc' = "head_ld")
     /\ (RunReturn /\ deq = 1) => count = Held]_vars

\* process_run returns after it has dequeued the CONTINUE event of a task
\* that was never started: no body ran and the queue is empty
C39_Witness ==
  /\ InRun /\ runpc = "ret" /\ deq = 1 /\ count = 0
  /\ dlog[Len(dlog)].id = PROCESS_EVENT_CONTINUE
  /\ lc[dlog[Len(dlog)].to] = PT_INIT
  /\ next[dlog[Len(dlog)].to] = NULL
====
